---------------------------- MODULE Spec2Model ----------------------------
(***************************************************************************)
(* A model of ydb-bench: the Job execution loop (pooled and single-session *)
(* modes, preheat and measured phases), the MetricsCollector (record,      *)
(* merge, summary), the split of the branch range over workers and the     *)
(* merge step of the parallel runner.                                      *)
(*                                                                         *)
(* Times are integers (clock ticks).  Every call of time.time() is a read  *)
(* of a clock that never runs backwards; between two reads it may have     *)
(* advanced.  The database and the pool's retry wrapper are the            *)
(* environment: the outcome of an attempt is ok, a retriable error         *)
(* ("aborted") or a non-retriable one ("error").                           *)
(***************************************************************************)
EXTENDS Integers, Sequences, FiniteSets, TLC

(***************************************************************************)
(* Bounds of the model.                                                    *)
(***************************************************************************)
MaxTime == 2
MaxStart == 1
MaxDuration == 2
MaxAttempts == 3
MaxRetries == 1
MaxWorkers == 101
MaxBranches == 7
MaxProcesses == 8
MaxInitLog == 1
MaxLog == 3
MaxPool == 3
MaxSummaryLog == 4
MaxValues == 10
MaxSummaries == 2
MaxWeight == 3
MaxScale == 3

(***************************************************************************)
(* Program constants.                                                      *)
(***************************************************************************)
TELLERS_PER_BRANCH == 10
ACCOUNTS_PER_BRANCH == 100000
MaxDelta == 1000

NoTime == 0 - 1

Min(a, b) == IF a <= b THEN a ELSE b
Max(a, b) == IF a >= b THEN a ELSE b

VARIABLES
    \* ---- Job configuration (job.py, Job.__init__)
    jobs,                 \* the Jobs of the run
    use_single_session,   \* [jobs -> BOOLEAN]
    duration_unit,        \* "SECOND" or "TXN"
    duration,
    workload_start_time,
    bid_from, bid_to,
    script_selector,      \* the scripts of Job._script_selector
    metrics,              \* [jobs -> collector]: Job._metrics
    \* ---- Job control state
    pc,                   \* [jobs -> position in _execute_pooled / _execute_single_session]
    i,                    \* [jobs -> the loop variable i]
    tries,                \* [jobs -> attempts made by the current retry_operation_async call]
    cur,                  \* [jobs -> the attempt in flight]
    session,              \* [jobs -> "none" | "held" | "released"]: the session of pool.acquire()
    exc,                  \* [jobs -> an exception is propagating]
    started,              \* [jobs -> number of _execute_operation calls so far]
    \* ---- MetricsCollector state, per collector
    transactions,         \* [collector -> Seq(TransactionMetrics)]
    start_time,           \* [collector -> _start_time, NoTime for None]
    unhandled_error_messages,  \* [collector -> Seq(STRING)]
    origin,               \* [collector -> Seq([job, phase, iteration])], the origin of each record
    summaries,            \* the calls of get_summary so far: [workload, log, summary]
    journal,              \* whether the journal of bound parameter sets is kept
    bound,                \* [jobs -> Seq of the parameter sets bound so far]
    \* ---- environment
    now,                  \* the clock
    clockTape,            \* the readings of the clock of a recorded run, in order
    attemptTape,          \* the draws and the outcome of each attempt of a recorded run
    nc,                   \* [jobs -> readings of clockTape taken]
    na,                   \* [jobs -> attempts of attemptTape taken]
    \* ---- the split of the branch range
    worker_count,         \* Runner._execute_parallel: the number of workers
    workers,              \* the Workers created so far, each [bid_from, bid_to]
    runner_range,         \* the [bid_from, bid_to] of the Runner that is split
    processes,            \* ParallelRunner.run_parallel: the number of processes
    runners,              \* the result of runner.split(processes)
    \* ---- merging
    last_merge,           \* << >>, or the last merge: its two collectors as they were before it
    par_pc,               \* the position of run_parallel
    results,              \* [process -> "pending" | "None" | "collector"]: the results of starmap
    \* ---- the command line
    options,              \* the options of the run command, << >> when there is no command
    cli_pc,               \* the position of the run command
    \* ---- the initialization of the tables (runner.py, initializer.py)
    scale,                \* Initializer._scale, the number of branches
    tasks,                \* the number of fill_branch tasks init_tables has created
    fill_calls,           \* the calls of fill_branch so far: [bid, raised]
    drawn                 \* the parameters a Job built last after the init, << >> if none

jobConfig == <<jobs, use_single_session, duration_unit, duration, workload_start_time,
               bid_from, bid_to, script_selector, metrics, journal>>
jobVars == <<jobConfig, pc, i, tries, cur, session, exc, started, bound>>
collectorVars == <<transactions, start_time, unhandled_error_messages, origin, summaries>>
envVars == <<now, clockTape, attemptTape, nc, na>>
splitVars == <<worker_count, workers, runner_range, processes, runners>>
mergeVars == <<last_merge, par_pc, results>>
initVars == <<scale, tasks, fill_calls, drawn>>
cliVars == <<options, cli_pc, initVars>>
\* the variables no Job touches
outsideJob == <<splitVars, mergeVars, cliVars>>
vars == <<jobVars, collectorVars, envVars, splitVars, mergeVars, cliVars>>

(***************************************************************************)
(* Workload scripts.  A script carries the flags derived from its text.    *)
(***************************************************************************)
WorkloadScript(filepath, weight, flags) ==
    [filepath |-> filepath, weight |-> weight,
     uses_bid |-> "$bid" \in flags, uses_tid |-> "$tid" \in flags,
     uses_aid |-> "$aid" \in flags, uses_delta |-> "$delta" \in flags,
     uses_iteration |-> "$iteration" \in flags]

\* The selector a Job builds when it is given none (job.py:63-71): the one
\* default script, the TPC-B transaction over bid, tid, aid and delta.
DefaultSelector ==
    << WorkloadScript("<default>", 1, {"$bid", "$tid", "$aid", "$delta"}) >>

\* A selector of one script that references every parameter.
AllParametersSelector ==
    << WorkloadScript("all.sql", 1, {"$bid", "$tid", "$aid", "$delta", "$iteration"}) >>

RECURSIVE SumWeights(_, _)
SumWeights(scripts, n) ==
    IF n = 0 THEN 0 ELSE scripts[n].weight + SumWeights(scripts, n - 1)

total_weight(scripts) == SumWeights(scripts, Len(scripts))

\* The first script whose cumulative weight exceeds the draw r.
RECURSIVE SelectFrom(_, _, _, _)
SelectFrom(scripts, r, k, cumulative) ==
    IF k >= Len(scripts) THEN scripts[Len(scripts)]
    ELSE IF r < cumulative + scripts[k].weight THEN scripts[k]
    ELSE SelectFrom(scripts, r, k + 1, cumulative + scripts[k].weight)

\* a selection that returns the first script whose cumulative weight
\* reaches the draw
SelectsAtCumulative(scripts, r) ==
    scripts[CHOOSE k \in 1 .. Len(scripts) :
                /\ SumWeights(scripts, k) >= r \/ k = Len(scripts)
                /\ \A l \in 1 .. k - 1 : SumWeights(scripts, l) < r]

select(scripts, r) == SelectFrom(scripts, r, 1, 0)

(***************************************************************************)
(* Job._build_parameters: the draws are bid, the teller and account        *)
(* offsets and delta.                                                      *)
(***************************************************************************)
Draws(lo, hi) ==
    { [bid |-> lo, tdraw |-> 1, adraw |-> 1, delta |-> 1],
      [bid |-> hi, tdraw |-> TELLERS_PER_BRANCH, adraw |-> ACCOUNTS_PER_BRANCH,
       delta |-> MaxDelta] }

\* every parameter, whatever the script references
EveryKey(script) == {"$bid", "$tid", "$aid", "$delta", "$iteration"}

ParameterKeys(script) ==
    (IF script.uses_bid THEN {"$bid"} ELSE {}) \cup
    (IF script.uses_tid THEN {"$tid"} ELSE {}) \cup
    (IF script.uses_aid THEN {"$aid"} ELSE {}) \cup
    (IF script.uses_delta THEN {"$delta"} ELSE {}) \cup
    (IF script.uses_iteration THEN {"$iteration"} ELSE {})

\* parameters whose teller and account are those of the branch after bid
OfNextBranch(script, iteration, d) ==
    LET bid == d.bid
        tid == bid * TELLERS_PER_BRANCH + d.tdraw
        aid == bid * ACCOUNTS_PER_BRANCH + d.adraw
        delta == d.delta
    IN [k \in ParameterKeys(script) |->
          CASE k = "$bid" -> bid
            [] k = "$tid" -> tid
            [] k = "$aid" -> aid
            [] k = "$delta" -> delta
            [] k = "$iteration" -> iteration]

build_parameters(script, iteration, d) ==
    LET bid == d.bid
        tid == (bid - 1) * TELLERS_PER_BRANCH + d.tdraw
        aid == (bid - 1) * ACCOUNTS_PER_BRANCH + d.adraw
        delta == d.delta
    IN [k \in ParameterKeys(script) |->
          CASE k = "$bid" -> bid
            [] k = "$tid" -> tid
            [] k = "$aid" -> aid
            [] k = "$delta" -> delta
            [] k = "$iteration" -> iteration]

(***************************************************************************)
(* MetricsCollector.record_transaction                                     *)
(***************************************************************************)
TransactionMetrics(filepath, st, et, success, error_message, sdur, scpu) ==
    [filepath |-> filepath, start_time |-> st, end_time |-> et, success |-> success,
     error_message |-> error_message, server_duration_us |-> sdur,
     server_cpu_time_us |-> scpu]

\* t0 is the reading of time.time() taken when _start_time is still None.
record_transaction(c, rec, t0, from) ==
    /\ start_time' = [start_time EXCEPT ![c] = IF @ = NoTime THEN t0 ELSE @]
    /\ transactions' = [transactions EXCEPT ![c] = Append(@, rec)]
    /\ origin' = [origin EXCEPT ![c] = Append(@, from)]
    /\ UNCHANGED <<unhandled_error_messages, summaries>>


(***************************************************************************)
(* Job._execute_operation, from its entry to the await of the database:    *)
(* selects the script (draw r), builds the parameters (draws d), reads     *)
(* start_time (clock reading t) and sends the transaction.                 *)
(* In the preheat loops the iteration passed is -1 in pooled mode          *)
(* (job.py:174) and 0 in single-session mode (job.py:211).                 *)
(***************************************************************************)
PreheatIteration(j) == IF use_single_session[j] THEN 0 ELSE 0 - 1

execute_operation_begin(j, r, d, t) ==
    /\ pc[j] \in {"preheat_call", "call"}
    /\ started[j] < MaxAttempts
    /\ LET iteration == IF pc[j] = "preheat_call" THEN PreheatIteration(j) ELSE i[j]
           script == select(script_selector, r)
           parameters == build_parameters(script, iteration, d)
       IN /\ cur' = [cur EXCEPT ![j] = [iteration |-> iteration,
                                        filepath |-> script.filepath,
                                        start_time |-> t]]
          /\ bound' = IF journal
                      THEN [bound EXCEPT ![j] = Append(@, parameters)]
                      ELSE bound
    /\ pc' = [pc EXCEPT ![j] = IF @ = "preheat_call" THEN "preheat_op" ELSE "op"]
    /\ tries' = [tries EXCEPT ![j] = @ + 1]
    /\ started' = [started EXCEPT ![j] = @ + 1]
    /\ UNCHANGED <<jobConfig, i, session, exc,
                   collectorVars>>

(***************************************************************************)
(* The outcome of an attempt, as the database reports it.                  *)
(***************************************************************************)
Outcomes ==
    { [kind |-> "ok", total_duration_us |-> 1000, total_cpu_time_us |-> 1000],
      [kind |-> "aborted", total_duration_us |-> 0, total_cpu_time_us |-> 0],
      [kind |-> "error", total_duration_us |-> 0, total_cpu_time_us |-> 0] }

\* pool.retry_operation_async calls the operation again after a retriable
\* error, until its retry limit is reached.
WrapperRetries(j, out) == out.kind = "aborted" /\ tries[j] <= MaxRetries

\* a finally clause that records nothing for the first iteration
RecordsFromSecondIteration(iteration) == iteration > 0

\* The finally clause of _execute_operation (job.py:148-161).
RecordsMetrics(iteration) == iteration >= 0

(***************************************************************************)
(* Job._execute_operation from the database's answer to its return, and    *)
(* the caller's handling of it up to the next loop condition or call:      *)
(* end_time is read (t), the record is appended (t0 is record_transaction's*)
(* own reading), the retry wrapper retries or gives up, the loop's except  *)
(* and finally clauses run.                                                *)
(***************************************************************************)
AfterPreheatOp(j, out) ==
    /\ pc' = [pc EXCEPT ![j] = IF WrapperRetries(j, out) THEN "preheat_call"
                               ELSE "preheat_check"]
    /\ UNCHANGED <<i, exc>>

\* a pooled loop without an except clause: when the wrapper gives up, the
\* loop ends
StopsWhenWrapperGivesUp(j, out) ==
    /\ pc' = [pc EXCEPT ![j] = IF WrapperRetries(j, out) THEN "call"
                               ELSE IF out.kind = "ok" THEN "loop_check"
                               ELSE "done"]
    /\ i' = [i EXCEPT ![j] =
               IF WrapperRetries(j, out) THEN @
               ELSE IF out.kind = "ok" THEN @ + 1 ELSE @]
    /\ UNCHANGED exc

\* _execute_pooled, job.py:182-197
AfterPooledOp(j, out) ==
    /\ pc' = [pc EXCEPT ![j] = IF WrapperRetries(j, out) THEN "call" ELSE "loop_check"]
    /\ i' = [i EXCEPT ![j] =
               IF WrapperRetries(j, out) THEN @
               ELSE IF duration_unit = "SECOND"
                    THEN (IF out.kind = "ok" THEN @ + 1 ELSE @)
                    ELSE @ + 1]
    /\ UNCHANGED exc

\* a single-session loop whose try has no finally clause: a failure leaves
\* the method at once
RaisesWithoutRelease(j, out) ==
    IF out.kind = "ok"
    THEN /\ pc' = [pc EXCEPT ![j] = "loop_check"]
         /\ i' = [i EXCEPT ![j] = @ + 1]
         /\ UNCHANGED exc
    ELSE /\ pc' = [pc EXCEPT ![j] = "raised"]
         /\ exc' = [exc EXCEPT ![j] = TRUE]
         /\ UNCHANGED i

\* _execute_single_session, job.py:220-233
AfterSingleSessionOp(j, out) ==
    IF out.kind = "ok"
    THEN /\ pc' = [pc EXCEPT ![j] = "loop_check"]
         /\ i' = [i EXCEPT ![j] = @ + 1]
         /\ UNCHANGED exc
    ELSE /\ pc' = [pc EXCEPT ![j] = "release"]
         /\ exc' = [exc EXCEPT ![j] = TRUE]
         /\ UNCHANGED i

execute_operation_end(j, out, t, t0) ==
    /\ pc[j] \in {"preheat_op", "op"}
    /\ LET c == metrics[j]
           rec == TransactionMetrics(cur[j].filepath, cur[j].start_time, t,
                                     out.kind = "ok",
                                     IF out.kind = "ok" THEN "" ELSE out.kind,
                                     out.total_duration_us, out.total_cpu_time_us)
           from == [job |-> j,
                    phase |-> IF pc[j] = "preheat_op" THEN "preheat" ELSE "measured",
                    iteration |-> cur[j].iteration]
       IN IF RecordsMetrics(cur[j].iteration)
          THEN record_transaction(c, rec, t0, from)
          ELSE UNCHANGED collectorVars
    /\ IF pc[j] = "preheat_op" THEN AfterPreheatOp(j, out)
       ELSE IF use_single_session[j] THEN AfterSingleSessionOp(j, out)
       ELSE AfterPooledOp(j, out)
    /\ UNCHANGED <<jobConfig, tries, cur, session,
                   started, bound>>

(***************************************************************************)
(* The condition of the preheat loop (job.py:172, job.py:209), read at     *)
(* clock reading t.                                                        *)
(***************************************************************************)
\* a preheat loop that is left one tick before workload_start_time
LeavesPreheatEarly(j, t) ==
    /\ pc[j] = "preheat_check"
    /\ IF t + 1 < workload_start_time
       THEN /\ pc' = [pc EXCEPT ![j] = "preheat_call"]
            /\ UNCHANGED i
       ELSE /\ pc' = [pc EXCEPT ![j] = IF use_single_session[j] THEN "acquire"
                                       ELSE "loop_check"]
            /\ i' = [i EXCEPT ![j] = 0]
    /\ tries' = [tries EXCEPT ![j] = 0]
    /\ UNCHANGED <<jobConfig, cur, session, exc,
                   started, collectorVars, bound>>

preheat_check(j, t) ==
    /\ pc[j] = "preheat_check"
    /\ IF t < workload_start_time
       THEN /\ pc' = [pc EXCEPT ![j] = "preheat_call"]
            /\ UNCHANGED i
       ELSE /\ pc' = [pc EXCEPT ![j] = IF use_single_session[j] THEN "acquire"
                                       ELSE "loop_check"]
            /\ i' = [i EXCEPT ![j] = 0]
    /\ tries' = [tries EXCEPT ![j] = 0]
    /\ UNCHANGED <<jobConfig, cur, session, exc,
                   started, collectorVars, bound>>

\* session = await pool.acquire() (job.py:218)
acquire(j) ==
    /\ pc[j] = "acquire"
    /\ session' = [session EXCEPT ![j] = "held"]
    /\ pc' = [pc EXCEPT ![j] = "loop_check"]
    /\ UNCHANGED <<jobConfig, i, tries, cur, exc,
                   started, collectorVars, bound>>

(***************************************************************************)
(* The condition of the measured loop: the deadline at clock reading t     *)
(* (job.py:184, job.py:223) or the range of the for loop (job.py:192,      *)
(* job.py:230).  i counts the iterations the for loop has handed out.      *)
(***************************************************************************)
LoopContinues(t) ==
    IF duration_unit = "SECOND" THEN t < workload_start_time + duration
    ELSE FALSE

loop_check(j, t) ==
    /\ pc[j] = "loop_check"
    /\ LET goes == IF duration_unit = "SECOND" THEN LoopContinues(t)
                   ELSE i[j] < duration
       IN pc' = [pc EXCEPT ![j] = IF goes THEN "call"
                                  ELSE IF use_single_session[j] THEN "release"
                                  ELSE "done"]
    /\ tries' = [tries EXCEPT ![j] = 0]
    /\ UNCHANGED <<jobConfig, i, cur, session, exc,
                   started, collectorVars, bound>>

\* finally: await pool.release(session) (job.py:226-227, job.py:232-233)
release(j) ==
    /\ pc[j] = "release"
    /\ session' = [session EXCEPT ![j] = "released"]
    /\ pc' = [pc EXCEPT ![j] = IF exc[j] THEN "raised" ELSE "done"]
    /\ UNCHANGED <<jobConfig, i, tries, cur, exc,
                   started, collectorVars, bound>>

(***************************************************************************)
(* One Job against a running clock: every reading of the clock is the last *)
(* one or one tick later.                                                  *)
(***************************************************************************)
Readings(n) == { t \in n .. n + 1 : t <= MaxTime }

Units == {"SECOND", "TXN"}

InitJobs(js, modes) ==
    /\ jobs = js
    /\ use_single_session \in modes
    /\ duration_unit \in Units
    /\ duration \in 0 .. MaxDuration
    /\ workload_start_time \in 0 .. MaxStart
    /\ bid_from = 1
    /\ bid_to = 2
    /\ pc = [j \in js |-> "preheat_check"]
    /\ i = [j \in js |-> 0]
    /\ tries = [j \in js |-> 0]
    /\ cur = [j \in js |-> [iteration |-> 0, filepath |-> "", start_time |-> 0]]
    /\ session = [j \in js |-> "none"]
    /\ exc = [j \in js |-> FALSE]
    /\ started = [j \in js |-> 0]
    /\ bound = [j \in js |-> << >>]

\* The variables of the split are not used by the Job specifications.
NoSplit ==
    /\ worker_count = 0
    /\ workers = << >>
    /\ runner_range = [bid_from |-> 0, bid_to |-> 0]
    /\ processes = 0
    /\ runners = << >>

\* The variables of the merge are not used by the Job specifications.
NoMerge ==
    /\ last_merge = << >>
    /\ par_pc = "idle"
    /\ results = << >>

\* The variables of the command line are not used by the other specifications.
\* The variables of the initialization are not used by the run command.
NoInit ==
    /\ scale = 0
    /\ tasks = 0
    /\ fill_calls = << >>
    /\ drawn = << >>

NoCommand ==
    /\ options = << >>
    /\ cli_pc = "none"
    /\ NoInit

InitCollectors(cs) ==
    /\ transactions = [c \in cs |-> << >>]
    /\ start_time = [c \in cs |-> NoTime]
    /\ unhandled_error_messages = [c \in cs |-> << >>]
    /\ origin = [c \in cs |-> << >>]
    /\ summaries = << >>

Init ==
    /\ InitJobs({1}, [{1} -> BOOLEAN])
    /\ script_selector = DefaultSelector
    /\ metrics = [j \in {1} |-> "m"]
    /\ InitCollectors({"m"})
    /\ journal = FALSE
    /\ now = 0
    /\ clockTape = << >>
    /\ attemptTape = << >>
    /\ nc = [j \in {1} |-> 0]
    /\ na = [j \in {1} |-> 0]
    /\ NoSplit
    /\ NoMerge
    /\ NoCommand

tapeVars == <<clockTape, attemptTape, nc, na>>

PreheatCheck(j) ==
    /\ \E t \in Readings(now) : now' = t /\ preheat_check(j, t)
    /\ UNCHANGED <<tapeVars, outsideJob>>

Begin(j) ==
    /\ \E r \in 0 .. total_weight(script_selector) - 1, d \in Draws(bid_from, bid_to),
          t \in Readings(now) :
           now' = t /\ execute_operation_begin(j, r, d, t)
    /\ UNCHANGED <<tapeVars, outsideJob>>

\* record_transaction reads the clock itself when _start_time is None.
ReadsStartTime(j) ==
    pc[j] \in {"preheat_op", "op"} /\ RecordsMetrics(cur[j].iteration)
        /\ start_time[metrics[j]] = NoTime

End(j) ==
    /\ \E out \in Outcomes, t \in Readings(now) : \E t0 \in Readings(t) :
           /\ now' = IF ReadsStartTime(j) THEN t0 ELSE t
           /\ execute_operation_end(j, out, t, t0)
    /\ UNCHANGED <<tapeVars, outsideJob>>

LoopCheck(j) ==
    /\ IF duration_unit = "SECOND"
       THEN \E t \in Readings(now) : now' = t /\ loop_check(j, t)
       ELSE now' = now /\ loop_check(j, now)
    /\ UNCHANGED <<tapeVars, outsideJob>>

Acquire(j) == acquire(j) /\ UNCHANGED <<envVars, outsideJob>>

Release(j) == release(j) /\ UNCHANGED <<envVars, outsideJob>>

Next ==
    \E j \in {1} :
        \/ PreheatCheck(j)
        \/ Begin(j)
        \/ End(j)
        \/ Acquire(j)
        \/ LoopCheck(j)
        \/ Release(j)

Spec == Init /\ [][Next]_vars

(***************************************************************************)
(* The same Job with a script that references every parameter and with the *)
(* journal of the parameter sets it binds.  The clock stands still during  *)
(* the run (its resolution is coarser than the run is long), at a time     *)
(* after workload_start_time.                                              *)
(***************************************************************************)
InitJournal ==
    /\ InitJobs({1}, [{1} -> BOOLEAN])
    /\ script_selector = AllParametersSelector
    /\ metrics = [j \in {1} |-> "m"]
    /\ InitCollectors({"m"})
    /\ journal = TRUE
    /\ now = MaxTime
    /\ clockTape = << >>
    /\ attemptTape = << >>
    /\ nc = [j \in {1} |-> 0]
    /\ na = [j \in {1} |-> 0]
    /\ NoSplit
    /\ NoMerge
    /\ NoCommand

SpecJournal == InitJournal /\ [][Next]_vars

(***************************************************************************)
(* Two Jobs of one process that record into the collector of the process.  *)
(* A Job is suspended only where it awaits: between the steps of the       *)
(* specification, which are taken in any order.                            *)
(***************************************************************************)
JobsOfProcess == {1, 2}

InitShared ==
    /\ InitJobs(JobsOfProcess, [JobsOfProcess -> BOOLEAN])
    /\ duration = 1
    /\ script_selector = DefaultSelector
    /\ metrics = [j \in JobsOfProcess |-> "m"]
    /\ InitCollectors({"m"})
    /\ journal = FALSE
    /\ now = 0
    /\ clockTape = << >>
    /\ attemptTape = << >>
    /\ nc = [j \in JobsOfProcess |-> 0]
    /\ na = [j \in JobsOfProcess |-> 0]
    /\ NoSplit
    /\ NoMerge
    /\ NoCommand

\* The clock of this specification advances by one tick over every database
\* call, until MaxTime, and not otherwise.
Later(n) == IF n < MaxTime THEN {n + 1} ELSE {MaxTime}

EndLater(j) ==
    /\ \E out \in Outcomes, t \in Later(now) :
           /\ now' = t
           /\ execute_operation_end(j, out, t, t)
    /\ UNCHANGED <<tapeVars, outsideJob>>

PreheatCheckNow(j) ==
    /\ preheat_check(j, now)
    /\ UNCHANGED <<envVars, outsideJob>>

BeginNow(j) ==
    /\ \E r \in 0 .. total_weight(script_selector) - 1, d \in Draws(bid_from, bid_to) :
           execute_operation_begin(j, r, d, now)
    /\ UNCHANGED <<envVars, outsideJob>>

LoopCheckNow(j) ==
    /\ loop_check(j, now)
    /\ UNCHANGED <<envVars, outsideJob>>

NextShared ==
    \E j \in {1, 2} :
        \/ PreheatCheckNow(j)
        \/ BeginNow(j)
        \/ EndLater(j)
        \/ Acquire(j)
        \/ LoopCheckNow(j)
        \/ Release(j)

SpecShared == InitShared /\ [][NextShared]_vars

(***************************************************************************)
(* The same Job with the journal and a selector of two scripts of equal    *)
(* weight, of which the second references the parameters the first does    *)
(* not.                                                                    *)
(***************************************************************************)
AllFlags == {"$bid", "$tid", "$aid", "$delta", "$iteration"}

FlagSelectors ==
    { << WorkloadScript("a.sql", 1, flags), WorkloadScript("b.sql", 1, AllFlags \ flags) >> :
        flags \in { {"$bid", "$iteration"} } }

InitFlags ==
    /\ InitJobs({1}, [{1} -> BOOLEAN])
    /\ script_selector \in FlagSelectors
    /\ metrics = [j \in {1} |-> "m"]
    /\ InitCollectors({"m"})
    /\ journal = TRUE
    /\ now = MaxTime
    /\ clockTape = << >>
    /\ attemptTape = << >>
    /\ nc = [j \in {1} |-> 0]
    /\ na = [j \in {1} |-> 0]
    /\ NoSplit
    /\ NoMerge
    /\ NoCommand

SpecFlags == InitFlags /\ [][Next]_vars

(***************************************************************************)
(* The same Job with a selector of one to three scripts of every           *)
(* combination of weights 1 .. MaxWeight, executing one transaction after  *)
(* the start of the workload.                                              *)
(***************************************************************************)
ScriptFiles == << "a.sql", "b.sql", "all.sql" >>

WeightedSelectors ==
    UNION { { [k \in 1 .. n |-> WorkloadScript(ScriptFiles[k], w[k], {"$bid"})] :
                w \in [1 .. n -> 1 .. MaxWeight] } : n \in 1 .. Len(ScriptFiles) }

InitSelect ==
    /\ InitJobs({1}, [{1} -> BOOLEAN])
    /\ duration_unit = "TXN"
    /\ duration = 1
    /\ script_selector \in WeightedSelectors
    /\ metrics = [j \in {1} |-> "m"]
    /\ InitCollectors({"m"})
    /\ journal = FALSE
    /\ now = MaxTime
    /\ clockTape = << >>
    /\ attemptTape = << >>
    /\ nc = [j \in {1} |-> 0]
    /\ na = [j \in {1} |-> 0]
    /\ NoSplit
    /\ NoMerge
    /\ NoCommand

SpecSelect == InitSelect /\ [][Next]_vars

(***************************************************************************)
(* Two runs of a Job, one per session mode, on the same recorded inputs:   *)
(* the n-th reading of the clock and the draws and the outcome of the n-th *)
(* attempt are the same in both runs.  The tapes grow as the run that is   *)
(* ahead draws new inputs; the run behind replays them.                    *)
(***************************************************************************)
LastReading(n) == IF n = 0 THEN 0 ELSE clockTape[n]

\* Job j takes the readings ts (one or two) from the clock tape.
TakeReadings(j, ts) ==
    /\ \A k \in 1 .. Len(ts) :
          IF nc[j] + k <= Len(clockTape)
          THEN ts[k] = clockTape[nc[j] + k]
          ELSE ts[k] \in Readings(IF k = 1 THEN LastReading(nc[j]) ELSE ts[k - 1])
    /\ clockTape' = IF nc[j] + Len(ts) <= Len(clockTape) THEN clockTape
                    ELSE SubSeq(clockTape, 1, nc[j]) \o ts
    /\ nc' = [nc EXCEPT ![j] = @ + Len(ts)]

\* The recorded run draws the upper end of every range.
RecordedDraws ==
    { d \in Draws(bid_from, bid_to) : d.bid = bid_to }

AttemptInputs ==
    [r : 0 .. total_weight(script_selector) - 1, d : RecordedDraws, out : Outcomes]

\* Job j takes the inputs a of its next attempt from the attempt tape.
TakeAttempt(j, a) ==
    /\ IF na[j] + 1 <= Len(attemptTape) THEN a = attemptTape[na[j] + 1]
       ELSE a \in AttemptInputs
    /\ attemptTape' = IF na[j] + 1 <= Len(attemptTape) THEN attemptTape
                      ELSE Append(attemptTape, a)
    /\ na' = [na EXCEPT ![j] = @ + 1]

TapePreheatCheck(j) ==
    /\ \E t \in 0 .. MaxTime : TakeReadings(j, <<t>>) /\ preheat_check(j, t)
    /\ UNCHANGED <<now, attemptTape, na, outsideJob>>

TapeBegin(j) ==
    /\ \E a \in AttemptInputs, t \in 0 .. MaxTime :
           /\ TakeAttempt(j, a)
           /\ TakeReadings(j, <<t>>)
           /\ execute_operation_begin(j, a.r, a.d, t)
    /\ UNCHANGED <<now, outsideJob>>

TapeEnd(j) ==
    /\ pc[j] \in {"preheat_op", "op"}
    /\ \E t \in 0 .. MaxTime, t0 \in 0 .. MaxTime :
           /\ IF ReadsStartTime(j) THEN TakeReadings(j, <<t, t0>>)
              ELSE t0 = t /\ TakeReadings(j, <<t>>)
           /\ execute_operation_end(j, attemptTape[na[j]].out, t, t0)
    /\ UNCHANGED <<now, attemptTape, na, outsideJob>>

TapeLoopCheck(j) ==
    /\ IF duration_unit = "SECOND"
       THEN \E t \in 0 .. MaxTime : TakeReadings(j, <<t>>) /\ loop_check(j, t)
       ELSE loop_check(j, 0) /\ UNCHANGED <<clockTape, nc>>
    /\ UNCHANGED <<now, attemptTape, na, outsideJob>>

Pooled == "pooled"
Single == "single"

InitEquiv ==
    /\ InitJobs({Pooled, Single}, {[j \in {Pooled, Single} |-> j = Single]})
    /\ script_selector = AllParametersSelector
    /\ metrics = [j \in {Pooled, Single} |-> j]
    /\ InitCollectors({Pooled, Single})
    /\ journal = TRUE
    /\ now = 0
    /\ clockTape = << >>
    /\ attemptTape = << >>
    /\ nc = [j \in {Pooled, Single} |-> 0]
    /\ na = [j \in {Pooled, Single} |-> 0]
    /\ NoSplit
    /\ NoMerge
    /\ NoCommand

\* The runs are separate executions: the pooled run is taken first, the
\* single-session run after it has ended.
Turn(j) == j = Pooled \/ pc[Pooled] \in {"done", "raised"}

NextEquiv ==
    \E j \in {Pooled, Single} :
        \/ Turn(j) /\ TapePreheatCheck(j)
        \/ Turn(j) /\ TapeBegin(j)
        \/ Turn(j) /\ TapeEnd(j)
        \/ Turn(j) /\ Acquire(j)
        \/ Turn(j) /\ TapeLoopCheck(j)
        \/ Turn(j) /\ Release(j)

SpecEquiv == InitEquiv /\ [][NextEquiv]_vars


(***************************************************************************)
(* The split of the branch range.                                          *)
(*                                                                         *)
(* Runner._execute_parallel (runner.py:90-93) gives worker i of            *)
(* worker_count the branches                                               *)
(*     math.floor(100.0/worker_count*i) + 1 ..                             *)
(*     math.floor(100.0/worker_count*(i+1)).                               *)
(* The expression is evaluated in IEEE-754 double arithmetic: the quotient *)
(* 100.0/worker_count is rounded, then its product with the index.  For    *)
(* the pairs <<worker_count, index>> of RoundedBelow, which are all such   *)
(* pairs with worker_count <= 200, the product falls just short of the     *)
(* integer it would be exactly and math.floor returns one less; for every  *)
(* other pair it returns the exact floor of 100*index/worker_count.        *)
(***************************************************************************)
RoundedBelow ==
    { <<97, 97>>, <<161, 161>>, <<167, 167>>, <<193, 193>>, <<194, 97>>,
      <<194, 194>>, <<195, 117>>, <<195, 195>>, <<199, 199>> }

\* 100*k/n rounded to the nearest integer, not down
RoundsToNearest(n, k) == (2 * 100 * k + n) \div (2 * n)

FloorOfShare(n, k) ==
    (100 * k) \div n - (IF <<n, k>> \in RoundedBelow THEN 1 ELSE 0)

Worker(n, index) ==
    [bid_from |-> FloorOfShare(n, index) + 1, bid_to |-> FloorOfShare(n, index + 1)]

\* One iteration of the loop of _execute_parallel: the next Worker is created.
CreateWorker ==
    /\ worker_count > 0
    /\ Len(workers) < worker_count
    /\ workers' = Append(workers, Worker(worker_count, Len(workers)))
    /\ UNCHANGED <<worker_count, runner_range, processes, runners>>
    /\ UNCHANGED <<jobVars, collectorVars, envVars, mergeVars, cliVars>>

(***************************************************************************)
(* runner.split(processes) (parallel_runner.py:67): boundary k of the      *)
(* range [bid_from, bid_to] split n ways is                                *)
(* floor((bid_to-bid_from+1)/n * k) + bid_from, and part k runs from       *)
(* boundary k-1 to the branch before boundary k.                           *)
(***************************************************************************)
Boundary(range, n, k) ==
    ((range.bid_to - range.bid_from + 1) * k) \div n + range.bid_from

split(range, n) ==
    [k \in 1 .. n |-> [bid_from |-> Boundary(range, n, k - 1),
                       bid_to |-> Boundary(range, n, k) - 1]]

RunParallelSplit ==
    /\ processes > 0
    /\ runners = << >>
    /\ runners' = split(runner_range, processes)
    /\ UNCHANGED <<worker_count, workers, runner_range, processes>>
    /\ UNCHANGED <<jobVars, collectorVars, envVars, mergeVars, cliVars>>

NoJobs ==
    /\ jobs = {}
    /\ use_single_session = << >>
    /\ duration_unit = "TXN"
    /\ duration = 0
    /\ workload_start_time = 0
    /\ bid_from = 1
    /\ bid_to = 1
    /\ script_selector = DefaultSelector
    /\ metrics = << >>
    /\ journal = FALSE
    /\ pc = << >>
    /\ i = << >>
    /\ tries = << >>
    /\ cur = << >>
    /\ session = << >>
    /\ exc = << >>
    /\ started = << >>
    /\ bound = << >>
    /\ now = 0
    /\ clockTape = << >>
    /\ attemptTape = << >>
    /\ nc = << >>
    /\ na = << >>

Ranges ==
    { [bid_from |-> lo, bid_to |-> hi] : lo \in 1 .. 2, hi \in 1 .. MaxBranches + 1 }

InitSplit ==
    /\ NoJobs
    /\ InitCollectors({})
    /\ NoMerge
    /\ NoCommand
    /\ workers = << >>
    /\ runners = << >>
    /\ \/ /\ worker_count \in 1 .. MaxWorkers
          /\ runner_range = [bid_from |-> 0, bid_to |-> 0]
          /\ processes = 0
       \/ /\ worker_count = 0
          /\ runner_range \in { g \in Ranges : g.bid_from <= g.bid_to }
          /\ processes \in 1 .. MaxProcesses

NextSplit == CreateWorker \/ RunParallelSplit

SpecSplit == InitSplit /\ [][NextSplit]_vars

(***************************************************************************)
(* MetricsCollector as a value, and MetricsCollector.merge                 *)
(* (metrics.py:82-93): the other collector's log and error messages are    *)
(* appended to this one's, and the earlier of the two start times is kept. *)
(* The origin of each record travels with the record.                      *)
(***************************************************************************)
MetricsCollector ==
    [transactions |-> << >>, start_time |-> NoTime,
     unhandled_error_messages |-> << >>, origin |-> << >>]

Collector(c) ==
    [transactions |-> transactions[c], start_time |-> start_time[c],
     unhandled_error_messages |-> unhandled_error_messages[c], origin |-> origin[c]]

Store(c, v) ==
    /\ transactions' = [transactions EXCEPT ![c] = v.transactions]
    /\ start_time' = [start_time EXCEPT ![c] = v.start_time]
    /\ unhandled_error_messages' =
           [unhandled_error_messages EXCEPT ![c] = v.unhandled_error_messages]
    /\ origin' = [origin EXCEPT ![c] = v.origin]
    /\ UNCHANGED summaries

\* an extend that puts the other list in front
ExtendsInFront(list, other) == other \o list

\* list.extend
extend(list, other) == list \o other

\* a merge that puts the other collector's records first
PrependsOther(self, other) ==
    [transactions |-> extend(other.transactions, self.transactions),
     unhandled_error_messages |->
         extend(other.unhandled_error_messages, self.unhandled_error_messages),
     start_time |-> self.start_time,
     origin |-> other.origin \o self.origin]

merge(self, other) ==
    [transactions |-> extend(self.transactions, other.transactions),
     unhandled_error_messages |->
         extend(self.unhandled_error_messages, other.unhandled_error_messages),
     start_time |->
         IF self.start_time = NoTime
               \/ (other.start_time # NoTime /\ other.start_time < self.start_time)
         THEN other.start_time
         ELSE self.start_time,
     origin |-> self.origin \o other.origin]

(***************************************************************************)
(* Statistics.  Times are whole seconds and server statistics whole        *)
(* milliseconds, so latencies in milliseconds and server times in          *)
(* milliseconds are integers.  A quotient is kept as a fraction in lowest  *)
(* terms, and the standard deviation by its square.                        *)
(***************************************************************************)
RECURSIVE GCD(_, _)
GCD(a, b) == IF b = 0 THEN a ELSE GCD(b, a % b)

Ratio(n, d) == LET g == GCD(n, d) IN [num |-> n \div g, den |-> d \div g]

Zero == Ratio(0, 1)

RECURSIVE Sum(_)
Sum(values) == IF values = << >> THEN 0 ELSE Head(values) + Sum(Tail(values))

RECURSIVE SumOfSquares(_)
SumOfSquares(values) ==
    IF values = << >> THEN 0
    ELSE Head(values) * Head(values) + SumOfSquares(Tail(values))

Less(x, y) == x < y

sorted(values) == SortSeq(values, Less)

\* int(len(sorted_values) * 0.50), * 0.95, * 0.99 (metrics.py:114-116)
PercentileIndex(n, q) == (n * q) \div 100

\* sorted_values[index] if index < len(sorted_values) else sorted_values[-1];
\* the index counts from 0
Percentile(sorted_values, q) ==
    LET index == PercentileIndex(Len(sorted_values), q)
    IN IF index < Len(sorted_values) THEN sorted_values[index + 1]
       ELSE sorted_values[Len(sorted_values)]

\* statistics.stdev: the sample standard deviation, which needs two values
stdev_squared(values) ==
    LET n == Len(values)
    IN Ratio(n * SumOfSquares(values) - Sum(values) * Sum(values), n * (n - 1))

Raised(error) == [raised |-> error]

\* MetricsCollector._calculate_percentiles (metrics.py:95-130)
calculate_percentiles(values) ==
    IF values = << >>
    THEN [raised |-> "", avg |-> Zero, stddev_squared |-> Zero, min |-> 0, max |-> 0,
          p50 |-> 0, p95 |-> 0, p99 |-> 0]
    ELSE LET sorted_values == sorted(values)
         IN IF Len(sorted_values) < 2
            THEN Raised("StatisticsError")
            ELSE [raised |-> "",
                  avg |-> Ratio(Sum(sorted_values), Len(sorted_values)),
                  stddev_squared |-> stdev_squared(sorted_values),
                  min |-> sorted_values[1],
                  max |-> sorted_values[Len(sorted_values)],
                  p50 |-> Percentile(sorted_values, 50),
                  p95 |-> Percentile(sorted_values, 95),
                  p99 |-> Percentile(sorted_values, 99)]

(***************************************************************************)
(* TransactionMetrics' properties (metrics.py:23-36)                       *)
(***************************************************************************)
latency(t) == t.end_time - t.start_time
server_duration_ms(t) == t.server_duration_us \div 1000
server_cpu_time_ms(t) == t.server_cpu_time_us \div 1000

HasFilepath(log, filepath) ==
    LET Matches(t) == t.filepath = filepath IN SelectSeq(log, Matches)

\* a filter that takes every successful transaction
IsSuccessful(t) == t.success

HasServerDuration(t) == t.success /\ t.server_duration_us > 0
HasServerCpuTime(t) == t.success /\ t.server_cpu_time_us > 0

EmptyDict == << >>

(***************************************************************************)
(* MetricsCollector.get_summary (metrics.py:132-199) on the log of a       *)
(* collector.  The result is the summary, with raised = "", or the         *)
(* exception the call raises.                                              *)
(***************************************************************************)
get_summary(log, workload) ==
    IF log = << >>
    THEN [raised |-> "", total_duration |-> 0, total_transactions |-> 0,
          successful_transactions |-> 0, failed_transactions |-> 0, tps |-> Zero,
          latency |-> EmptyDict, server_duration |-> EmptyDict,
          server_cpu_time |-> EmptyDict]
    ELSE
    LET filtered_transactions ==
            IF workload = "SUMMARY" THEN log ELSE HasFilepath(log, workload)
        with_server_duration == SelectSeq(filtered_transactions, HasServerDuration)
        with_server_cpu_time == SelectSeq(filtered_transactions, HasServerCpuTime)
        start_times ==
            [k \in 1 .. Len(with_server_duration) |-> with_server_duration[k].start_time]
        end_times ==
            [k \in 1 .. Len(with_server_cpu_time) |-> with_server_cpu_time[k].end_time]
    IN
    IF start_times = << >> \/ end_times = << >> THEN Raised("IndexError")
    ELSE
    LET min_time == start_times[1]
        max_time == end_times[Len(end_times)]
        total_duration == max_time - min_time
        total_transactions == Len(filtered_transactions)
        successful_transactions ==
            Len(SelectSeq(filtered_transactions, LAMBDA t : t.success))
        latencies_ms ==
            [k \in 1 .. Len(filtered_transactions) |->
                 latency(filtered_transactions[k]) * 1000]
        server_durations ==
            [k \in 1 .. Len(with_server_duration) |->
                 server_duration_ms(with_server_duration[k])]
        server_cpu_times ==
            [k \in 1 .. Len(with_server_cpu_time) |->
                 server_cpu_time_ms(with_server_cpu_time[k])]
        latency_stats == calculate_percentiles(latencies_ms)
        server_duration_stats == calculate_percentiles(server_durations)
        server_cpu_time_stats == calculate_percentiles(server_cpu_times)
    IN
    IF latency_stats.raised # "" THEN latency_stats
    ELSE IF server_duration_stats.raised # "" THEN server_duration_stats
    ELSE IF server_cpu_time_stats.raised # "" THEN server_cpu_time_stats
    ELSE [raised |-> "",
          total_duration |-> total_duration,
          total_transactions |-> total_transactions,
          successful_transactions |-> successful_transactions,
          failed_transactions |-> total_transactions - successful_transactions,
          tps |-> IF total_duration > 0 THEN Ratio(total_transactions, total_duration)
                  ELSE Zero,
          latency |-> latency_stats,
          server_duration |-> server_duration_stats,
          server_cpu_time |-> server_cpu_time_stats]

(***************************************************************************)
(* Collectors that are merged.  Each collector starts with the log of a    *)
(* finished process: records in completion order.                          *)
(***************************************************************************)
SampleRecords ==
    { TransactionMetrics("a.sql", 0, 1, TRUE, "", 1000, 1000),
      TransactionMetrics("b.sql", 2, 3, TRUE, "", 2000, 1000),
      TransactionMetrics("a.sql", 1, 2, FALSE, "aborted", 0, 0),
      TransactionMetrics("b.sql", 1, 3, TRUE, "", 0, 0) }

InCompletionOrder(log) ==
    \A k \in 1 .. Len(log) - 1 : log[k].end_time <= log[k + 1].end_time

Logs(n) ==
    { log \in UNION { [1 .. m -> SampleRecords] : m \in 0 .. n } : InCompletionOrder(log) }

RecordedBy(c, log) ==
    [k \in 1 .. Len(log) |-> [job |-> c, phase |-> "measured", iteration |-> k - 1]]

\* the collector of a process that recorded log
Recorded(c, log) ==
    [transactions |-> log,
     start_time |-> IF log = << >> THEN NoTime ELSE log[1].end_time,
     unhandled_error_messages |-> << >>,
     origin |-> RecordedBy(c, log)]

Collectors == 1 .. 3

InitMerge ==
    /\ NoJobs
    /\ NoSplit
    /\ NoMerge
    /\ NoCommand
    /\ \E logs \in [Collectors -> Logs(MaxInitLog)] :
           /\ transactions = logs
           /\ start_time = [c \in Collectors |-> Recorded(c, logs[c]).start_time]
           /\ unhandled_error_messages = [c \in Collectors |-> << >>]
           /\ origin = [c \in Collectors |-> RecordedBy(c, logs[c])]
           /\ summaries = << >>

\* a.merge(b)
Merge(a, b) ==
    /\ a # b
    /\ Len(transactions[a]) + Len(transactions[b]) <= MaxLog
    /\ Store(a, merge(Collector(a), Collector(b)))
    /\ last_merge' = << [self |-> a, other |-> b,
                         self_before |-> Collector(a), other_before |-> Collector(b)] >>
    /\ UNCHANGED <<jobVars, envVars, splitVars, par_pc, results, cliVars>>

NextMerge == \E a, b \in Collectors : Merge(a, b)

SpecMerge == InitMerge /\ [][NextMerge]_vars

(***************************************************************************)
(* Two collectors, empty at first, under any sequence of record_transaction*)
(* and merge calls.                                                        *)
(***************************************************************************)
TwoCollectors == {"m", "n"}

InitCalls ==
    /\ NoJobs
    /\ NoSplit
    /\ NoMerge
    /\ NoCommand
    /\ InitCollectors(TwoCollectors)

RecordIn(c, rec) ==
    /\ Len(transactions[c]) < MaxLog
    /\ record_transaction(c, rec, rec.end_time,
                          [job |-> c, phase |-> "measured",
                           iteration |-> Len(transactions[c])])
    /\ UNCHANGED <<jobVars, envVars, splitVars, mergeVars, cliVars>>

NextCalls ==
    \/ \E c \in TwoCollectors, rec \in SampleRecords : RecordIn(c, rec)
    \/ \E a, b \in TwoCollectors : Merge(a, b)

SpecCalls == InitCalls /\ [][NextCalls]_vars

(***************************************************************************)
(* MetricsCollector.print_group (metrics.py:201-281): the summary of the   *)
(* group is computed and its fields are formatted; a statistic that is     *)
(* missing from a dictionary of the summary raises KeyError.  The result   *)
(* is the group printed, or the exception.                                 *)
(***************************************************************************)
StatisticKeys == {"avg", "stddev_squared", "min", "max", "p50", "p95", "p99"}

HasStatistics(stats) == StatisticKeys \subseteq DOMAIN stats

print_group(log, workload) ==
    LET summary == get_summary(log, workload)
    IN IF summary.raised # "" THEN summary
       ELSE IF /\ HasStatistics(summary.latency)
               /\ HasStatistics(summary.server_duration)
               /\ HasStatistics(summary.server_cpu_time)
            THEN [raised |-> "", workload |-> workload, summary |-> summary]
            ELSE Raised("KeyError")

(***************************************************************************)
(* MetricsCollector.print_summary (metrics.py:283-292).  The script        *)
(* identifiers of the model, in ascending lexicographic order, are         *)
(* Identifiers; sorted() of a set of them is its members in that order.    *)
(* The result is the sequence of the groups printed, and the exception     *)
(* that ended the printing, if any.                                        *)
(***************************************************************************)
Identifiers == << "<builtin:tpcb-like>", "<default>", "a.sql", "all.sql", "b.sql" >>

sorted_filepaths(log) ==
    LET Appears(filepath) == \E k \in 1 .. Len(log) : log[k].filepath = filepath
    IN SelectSeq(Identifiers, Appears)

RECURSIVE print_groups(_, _, _)
\* the loop of print_summary from unique_filepaths[k] on
print_groups(log, unique_filepaths, k) ==
    IF k > Len(unique_filepaths) THEN [raised |-> "", groups |-> << >>]
    ELSE LET group == print_group(log, unique_filepaths[k])
         IN IF group.raised # "" THEN [raised |-> group.raised, groups |-> << >>]
            ELSE LET rest == print_groups(log, unique_filepaths, k + 1)
                 IN [raised |-> rest.raised, groups |-> <<group>> \o rest.groups]

print_summary(log) ==
    LET unique_filepaths == sorted_filepaths(log)
        overall == print_group(log, "SUMMARY")
    IN IF overall.raised # "" THEN [raised |-> overall.raised, groups |-> << >>]
       ELSE IF Len(unique_filepaths) > 1
       THEN LET rest == print_groups(log, unique_filepaths, 1)
            IN [raised |-> rest.raised, groups |-> <<overall>> \o rest.groups]
       ELSE [raised |-> "", groups |-> <<overall>>]

(***************************************************************************)
(* One collector that is filled record by record, in completion order, and *)
(* summarised.                                                             *)
(***************************************************************************)
\* the sample records, and two successful ones for which the server reported
\* only one of its two statistics
SummaryRecords ==
    SampleRecords \cup
        { TransactionMetrics("a.sql", 3, 3, TRUE, "", 3000, 0),
          TransactionMetrics("b.sql", 0, 2, TRUE, "", 0, 2000) }

InitSummary ==
    /\ NoJobs
    /\ NoSplit
    /\ NoMerge
    /\ NoCommand
    /\ InitCollectors({"m"})

Record(rec) ==
    /\ Len(transactions["m"]) < MaxSummaryLog
    /\ InCompletionOrder(Append(transactions["m"], rec))
    /\ record_transaction("m", rec, rec.end_time,
                          [job |-> 1, phase |-> "measured",
                           iteration |-> Len(transactions["m"])])
    /\ UNCHANGED <<jobVars, envVars, splitVars, mergeVars, cliVars>>

NextSummary == \E rec \in SummaryRecords : Record(rec)

SpecSummary == InitSummary /\ [][NextSummary]_vars

(***************************************************************************)
(* The same collector with calls of get_summary between the records.  A    *)
(* call leaves the collector as it is: get_summary assigns no attribute,   *)
(* and _calculate_percentiles sorts a copy of its values (sorted(), not    *)
(* list.sort()).                                                           *)
(***************************************************************************)
Summarised == {"SUMMARY", "a.sql"}

\* a get_summary that sorts the log of the collector by end time and start
\* time before it reads it
GetSummarySorting(workload) ==
    /\ Len(summaries) < MaxSummaries
    /\ LET ByTimes(t1, t2) == \/ t1.end_time < t2.end_time
                              \/ t1.end_time = t2.end_time /\ t1.start_time > t2.start_time
           log == SortSeq(transactions["m"], ByTimes)
       IN /\ transactions' = [transactions EXCEPT !["m"] = log]
          /\ summaries' = Append(summaries,
                                 [workload |-> workload, log |-> transactions["m"],
                                  summary |-> get_summary(log, workload)])
    /\ UNCHANGED <<start_time, unhandled_error_messages, origin>>
    /\ UNCHANGED <<jobVars, envVars, splitVars, mergeVars, cliVars>>

GetSummary(workload) ==
    /\ Len(summaries) < MaxSummaries
    /\ summaries' = Append(summaries,
                           [workload |-> workload, log |-> transactions["m"],
                            summary |-> get_summary(transactions["m"], workload)])
    /\ UNCHANGED <<transactions, start_time, unhandled_error_messages, origin>>
    /\ UNCHANGED <<jobVars, envVars, splitVars, mergeVars, cliVars>>

NextRepeat ==
    \/ \E rec \in SummaryRecords : Record(rec)
    \/ \E workload \in Summarised : GetSummary(workload)

SpecRepeat == InitSummary /\ [][NextRepeat]_vars

(***************************************************************************)
(* One collector whose records differ in the server duration only: v       *)
(* milliseconds, the values rising from 1 or falling from MaxValues by     *)
(* steps of 0 or 1.                                                        *)
(***************************************************************************)
DurationRecord(v) == TransactionMetrics("a.sql", 0, 1, TRUE, "", v * 1000, 1000)

server_durations(log) == [k \in 1 .. Len(log) |-> server_duration_ms(log[k])]

NextValues(log) ==
    IF log = << >> THEN {1, MaxValues}
    ELSE LET first == server_duration_ms(log[1])
             last == server_duration_ms(log[Len(log)])
         IN IF first = 1 THEN {last, last + 1}
            ELSE { v \in {last, last - 1} : v >= 1 }

RecordDuration(v) ==
    /\ Len(transactions["m"]) < MaxValues
    /\ v \in NextValues(transactions["m"])
    /\ record_transaction("m", DurationRecord(v), 1,
                          [job |-> 1, phase |-> "measured",
                           iteration |-> Len(transactions["m"])])
    /\ UNCHANGED <<jobVars, envVars, splitVars, mergeVars, cliVars>>

NextPercentiles == \E v \in 1 .. MaxValues : RecordDuration(v)

SpecPercentiles == InitSummary /\ [][NextPercentiles]_vars

(***************************************************************************)
(* ParallelRunner.run_parallel (parallel_runner.py:66-85).  The runner is  *)
(* split, one process per part is started, each process runs its part and  *)
(* returns its collector, or None when it failed; when every process has   *)
(* finished, starmap returns the results in the order of the processes and *)
(* the loop merges them into a new collector.                              *)
(* Collector 0 is merged_metrics, collector w that of process w.           *)
(***************************************************************************)
SampleLog ==
    << TransactionMetrics("a.sql", 0, 1, TRUE, "", 1000, 1000),
       TransactionMetrics("a.sql", 1, 2, FALSE, "aborted", 0, 0),
       TransactionMetrics("b.sql", 2, 3, TRUE, "", 2000, 1000) >>

WorkerLogs == { SubSeq(SampleLog, 1, n) : n \in 0 .. Min(MaxInitLog, Len(SampleLog)) }

InitParallel ==
    /\ NoJobs
    /\ worker_count = 0
    /\ workers = << >>
    /\ runner_range = [bid_from |-> 1, bid_to |-> MaxBranches]
    /\ processes \in 1 .. MaxPool
    /\ runners = << >>
    /\ last_merge = << >>
    /\ par_pc = "split"
    /\ results = << >>
    /\ InitCollectors(0 .. processes)
    /\ NoCommand

\* parallel_runner.py:67-77, to the start of the processes
StartProcesses ==
    /\ par_pc = "split"
    /\ runners' = split(runner_range, processes)
    /\ results' = [w \in 1 .. processes |-> "pending"]
    /\ par_pc' = "starmap"
    /\ UNCHANGED <<cliVars, jobVars, envVars, collectorVars, last_merge,
                   worker_count, workers, runner_range, processes>>

\* the arguments of the processes (parallel_runner.py:70-73)
worker_args(rs, start) ==
    [k \in 1 .. Len(rs) |-> [runner |-> rs[k], workload_start_time |-> start,
                             process_id |-> k - 1]]

\* runner.run in process w: the records of the process are log; the process
\* returns its collector, or None when it failed.
run(w, log, failed) ==
    /\ par_pc = "starmap"
    /\ results[w] = "pending"
    /\ Store(w, Recorded(w, log))
    /\ results' = [results EXCEPT ![w] = IF failed THEN "None" ELSE "collector"]
    /\ UNCHANGED <<jobVars, envVars, splitVars, last_merge, par_pc, cliVars>>

\* a loop that merges every result, None included
AlwaysMerged(result) == TRUE

\* result is not None (parallel_runner.py:82)
IsNotNone(result) == result # "None"

\* The loop of parallel_runner.py:81-83 from result k on: the collector
\* merged_metrics has become, or the exception of merging None.
RECURSIVE merge_results(_, _)
merge_results(k, merged_metrics) ==
    IF k > Len(results) THEN [raised |-> "", merged_metrics |-> merged_metrics]
    ELSE IF IsNotNone(results[k])
    THEN IF results[k] = "None" THEN Raised("AttributeError")
         ELSE merge_results(k + 1, merge(merged_metrics, Collector(k)))
    ELSE merge_results(k + 1, merged_metrics)

\* starmap has returned: parallel_runner.py:80-85
MergeResults ==
    /\ par_pc = "starmap"
    /\ \A w \in 1 .. processes : results[w] # "pending"
    /\ LET outcome == merge_results(1, MetricsCollector)
       IN IF outcome.raised = ""
          THEN Store(0, outcome.merged_metrics) /\ par_pc' = "returned"
          ELSE UNCHANGED collectorVars /\ par_pc' = "raised"
    /\ UNCHANGED <<jobVars, envVars, splitVars, last_merge, results, cliVars>>

NextParallel ==
    \/ StartProcesses
    \/ \E w \in 1 .. MaxPool, log \in WorkerLogs : w <= processes /\ run(w, log, FALSE)
    \/ \E w \in 1 .. MaxPool, log \in WorkerLogs : w <= processes /\ run(w, log, TRUE)
    \/ MergeResults

SpecParallel == InitParallel /\ [][NextParallel]_vars

(***************************************************************************)
(* Claims about the split, checked under SpecSplit.                        *)
(***************************************************************************)
Size(g) == g.bid_to - g.bid_from + 1

\* The ranges gs are contiguous, do not overlap and cover lo .. hi.
Partitions(gs, lo, hi) ==
    /\ gs[1].bid_from = lo
    /\ gs[Len(gs)].bid_to = hi
    /\ \A k \in 1 .. Len(gs) - 1 : gs[k + 1].bid_from = gs[k].bid_to + 1
    /\ \A k \in 1 .. Len(gs) : Size(gs[k]) >= 0

Balanced(gs) ==
    \A k, l \in 1 .. Len(gs) : Size(gs[k]) - Size(gs[l]) <= 1

AllWorkersCreated == worker_count > 0 /\ Len(workers) = worker_count
SplitDone == processes > 0 /\ runners # << >>

\* C8: for every branch range and every number of processes the sub-ranges
\* of the split are contiguous, do not overlap, cover the whole range and
\* differ in size by at most one branch.
C8_SplitPartitionsRange ==
    /\ AllWorkersCreated => Partitions(workers, 1, 100) /\ Balanced(workers)
    /\ SplitDone => /\ Partitions(runners, runner_range.bid_from, runner_range.bid_to)
                    /\ Balanced(runners)

Range(lo, hi) == [bid_from |-> lo, bid_to |-> hi]

\* C9 as stated: the range [1,100] over 3 processes gives [1,33], [34,67],
\* [68,100].
C9_ThreeWaySplitAsStated ==
    (AllWorkersCreated /\ worker_count = 3)
        => workers = << Range(1, 33), Range(34, 67), Range(68, 100) >>

\* C9 as amended: the range [1,100] over 3 processes gives [1,33], [34,66],
\* [67,100], by the loop of _execute_parallel and by the boundary rule.
C9_ThreeWaySplit ==
    /\ (AllWorkersCreated /\ worker_count = 3)
          => workers = << Range(1, 33), Range(34, 66), Range(67, 100) >>
    /\ split(Range(1, 100), 3) = << Range(1, 33), Range(34, 66), Range(67, 100) >>

C9_Witness == AllWorkersCreated /\ worker_count = 3

(***************************************************************************)
(* Claims about the Job loop, checked under Spec.                          *)
(***************************************************************************)
Done(j) == pc[j] = "done"
Ended(j) == pc[j] \in {"done", "raised"}
Deadline == workload_start_time + duration
RecordsOf(j) ==
    { k \in 1 .. Len(origin[metrics[j]]) : origin[metrics[j]][k].job = j }

\* C1: when a Job is DONE, every record it appended to its collector comes
\* from a transaction of the measured phase, none from the preheat phase.
C1_NoPreheatRecord ==
    \A j \in jobs :
        Done(j) => \A k \in RecordsOf(j) : origin[metrics[j]][k].phase = "measured"

\* C2: in TRANSACTION-COUNT mode with duration N and zero preheat, a Job
\* that is DONE has recorded exactly N TransactionMetrics.
C2_ExactlyNRecords ==
    \A j \in jobs :
        (Done(j) /\ duration_unit = "TXN" /\ workload_start_time = 0)
            => Cardinality(RecordsOf(j)) = duration

\* C3: a failed measured transaction never aborts the loop: a Job ends only
\* when the for loop has handed out all its iterations (TRANSACTION-COUNT)
\* or the clock has reached the deadline (WALL-CLOCK).
C3_FailureNeverAbortsLoop ==
    \A j \in jobs :
        Ended(j) => IF duration_unit = "TXN" THEN i[j] >= duration
                    ELSE now >= Deadline

\* C5: in WALL-CLOCK mode at most one record of the measured loop of a Job
\* has an end_time later than the deadline workload_start_time + duration.
C5_OverrunBoundedByOne ==
    \A j \in jobs :
        duration_unit = "SECOND" =>
            Cardinality({ k \in RecordsOf(j) :
                            /\ origin[metrics[j]][k].phase = "measured"
                            /\ transactions[metrics[j]][k].end_time > Deadline }) <= 1


(***************************************************************************)
(* Claims about the two session modes, checked under SpecEquiv.            *)
(***************************************************************************)
\* C4: on the same script selections, draws, clock readings and database
\* outcomes, the pooled run and the single-session run append the same
\* sequence of TransactionMetrics and bind the same parameter sets.
C4_ModesEquivalent ==
    (Ended(Pooled) /\ Ended(Single)) =>
        /\ transactions[metrics[Pooled]] = transactions[metrics[Single]]
        /\ bound[Pooled] = bound[Single]

(***************************************************************************)
(* Claims about merge and the summary of a merged collector, checked under *)
(* SpecMerge.                                                              *)
(***************************************************************************)
CountIn(log, r) == Cardinality({ k \in 1 .. Len(log) : log[k] = r })

SameMultiset(log, other) ==
    /\ Len(log) = Len(other)
    /\ \A k \in 1 .. Len(log) : CountIn(log, log[k]) = CountIn(other, log[k])

Merged == last_merge # << >>

\* The last merge added exactly the other collector's records and left the
\* other collector as it was; the multiset of records is that of the merge in
\* the other order, and that of either grouping with any third collector.
MergeKeepsRecords ==
    Merged =>
        LET m == last_merge[1]
            A == m.self_before
            B == m.other_before
        IN /\ Len(transactions[m.self]) = Len(A.transactions) + Len(B.transactions)
           /\ SubSeq(transactions[m.self], 1, Len(A.transactions)) = A.transactions
           /\ SubSeq(transactions[m.self], Len(A.transactions) + 1,
                     Len(transactions[m.self])) = B.transactions
           /\ Collector(m.other) = B
           /\ SameMultiset(transactions[m.self], merge(B, A).transactions)
           /\ \A c \in Collectors :
                  SameMultiset(merge(merge(A, B), Collector(c)).transactions,
                               merge(A, merge(B, Collector(c))).transactions)

\* C6: merge adds exactly the other collector's records (the log of A has
\* len(A)+len(B) records, B is unchanged, the multiset of records is the same
\* in either order and in any grouping of three collectors), and the overall
\* summary of the merged collector has total_transactions equal to that length.
C6_MergeAddsExactly ==
    /\ MergeKeepsRecords
    /\ Merged =>
           LET m == last_merge[1]
               summary == get_summary(transactions[m.self], "SUMMARY")
           IN /\ summary.raised = ""
              /\ summary.total_transactions
                     = Len(m.self_before.transactions) + Len(m.other_before.transactions)

\* C7: the overall summary of a merged collector is the same whether A was
\* merged before B or B before A: the same total_duration, tps, counts and
\* statistics (or the same exception).
C7_SummaryIndependentOfMergeOrder ==
    Merged =>
        LET m == last_merge[1]
        IN get_summary(merge(m.self_before, m.other_before).transactions, "SUMMARY")
               = get_summary(merge(m.other_before, m.self_before).transactions, "SUMMARY")

(***************************************************************************)
(* Claims about run_parallel, checked under SpecParallel.                  *)
(***************************************************************************)
RECURSIVE ReturnedFrom(_)
\* the collectors the processes k, k+1, ... returned, merged in that order
ReturnedFrom(k) ==
    IF k > processes THEN MetricsCollector
    ELSE IF results[k] = "collector" THEN merge(Collector(k), ReturnedFrom(k + 1))
    ELSE ReturnedFrom(k + 1)

C11_MergeAfterAllInOrder ==
    /\ (\E w \in DOMAIN results : results[w] = "pending")
           => par_pc = "starmap" /\ Collector(0) = MetricsCollector
    /\ par_pc = "returned" =>
           /\ transactions[0] = ReturnedFrom(1).transactions
           /\ \A k, l \in 1 .. Len(origin[0]) :
                  k < l => origin[0][k].job <= origin[0][l].job
           /\ \A k \in 1 .. Len(origin[0]) :
                  transactions[0][k]
                      = transactions[origin[0][k].job][origin[0][k].iteration + 1]
    /\ \A w \in 1 .. processes :
           \A k \in 1 .. Len(origin[w]) : origin[w][k].job = w

C11_Witness ==
    /\ par_pc = "returned"
    /\ \E w, v \in 1 .. processes :
           /\ w < v
           /\ results[w] = "collector" /\ transactions[w] # << >>
           /\ results[v] = "collector" /\ transactions[v] # << >>

(***************************************************************************)
(* More claims about the Job loop, checked under Spec.                     *)
(***************************************************************************)
\* C12: in single-session mode the session is acquired once, after the
\* preheat phase, is held from then on through every measured transaction
\* and every loop condition up to the release, and is released when the Job
\* has ended, whether the loop finished or a transaction raised; a pooled
\* Job never acquires a session of its own.
C12_OneSessionHeldThenReleased ==
    \A j \in jobs :
        IF use_single_session[j]
        THEN /\ pc[j] \in {"preheat_check", "preheat_call", "preheat_op", "acquire"}
                    => session[j] = "none"
             /\ pc[j] \in {"loop_check", "call", "op", "release"}
                    => session[j] = "held"
             /\ Ended(j) => session[j] = "released"
        ELSE session[j] = "none"

C12_Witness ==
    \E j \in jobs :
        /\ use_single_session[j]
        /\ pc[j] = "raised"
        /\ session[j] = "released"
        /\ Len(transactions[metrics[j]]) >= 2

(***************************************************************************)
(* Claims about the parameters a Job binds, checked under SpecJournal.     *)
(***************************************************************************)
\* bid is in lo .. hi, tid and aid belong to branch bid, delta is in 1 .. 1000
InRanges(p, lo, hi) ==
    /\ lo <= p["$bid"] /\ p["$bid"] <= hi
    /\ (p["$bid"] - 1) * TELLERS_PER_BRANCH + 1 <= p["$tid"]
    /\ p["$tid"] <= p["$bid"] * TELLERS_PER_BRANCH
    /\ (p["$bid"] - 1) * ACCOUNTS_PER_BRANCH + 1 <= p["$aid"]
    /\ p["$aid"] <= p["$bid"] * ACCOUNTS_PER_BRANCH
    /\ 1 <= p["$delta"] /\ p["$delta"] <= 1000

\* every combination of a branch of the range with the least and the
\* greatest value of each other draw
CornerDraws(lo, hi) ==
    [bid : lo .. hi, tdraw : {1, TELLERS_PER_BRANCH}, adraw : {1, ACCOUNTS_PER_BRANCH},
     delta : {1, MaxDelta}]

\* C13: every parameter set a Job has bound, and every parameter set
\* _build_parameters builds from draws at the ends of their ranges, has bid
\* in bid_from .. bid_to, tid and aid in the tellers and accounts of branch
\* bid, and delta in 1 .. 1000.
C13_ParametersInRange ==
    /\ \A j \in jobs :
           \A k \in 1 .. Len(bound[j]) : InRanges(bound[j][k], bid_from, bid_to)
    /\ \A d \in CornerDraws(bid_from, bid_to) :
           InRanges(build_parameters(script_selector[1], 0, d), bid_from, bid_to)

C13_Witness ==
    \E j \in jobs :
        \E k, l \in 1 .. Len(bound[j]) :
            /\ bound[j][k]["$bid"] = bid_from /\ bound[j][k]["$tid"] = 1
            /\ bound[j][l]["$bid"] = bid_to
            /\ bound[j][l]["$aid"] = bid_to * ACCOUNTS_PER_BRANCH

(***************************************************************************)
(* Claims about the summary of one collector, checked under SpecSummary.   *)
(***************************************************************************)
AllZero(stats) ==
    /\ HasStatistics(stats)
    /\ stats.avg = Zero /\ stats.stddev_squared = Zero
    /\ stats.min = 0 /\ stats.max = 0
    /\ stats.p50 = 0 /\ stats.p95 = 0 /\ stats.p99 = 0

\* C14: for a collector with an empty log get_summary raises nothing and
\* every field of the summary is zero, each of avg, stddev, min, max, p50,
\* p95 and p99 of the three statistics included, and print_summary raises
\* nothing.
C14_EmptySummaryAllZero ==
    transactions["m"] = << >> =>
        LET summary == get_summary(transactions["m"], "SUMMARY")
        IN /\ summary.raised = ""
           /\ summary.total_duration = 0
           /\ summary.total_transactions = 0
           /\ summary.successful_transactions = 0
           /\ summary.failed_transactions = 0
           /\ summary.tps = Zero
           /\ AllZero(summary.latency)
           /\ AllZero(summary.server_duration)
           /\ AllZero(summary.server_cpu_time)
           /\ print_summary(transactions["m"]).raised = ""
\* the groups a summary can be asked for: the overall one and one per script
\* identifier, whether it appears in the log or not
Groups == {"SUMMARY"} \cup { Identifiers[k] : k \in 1 .. Len(Identifiers) }

GroupOf(log, workload) ==
    IF workload = "SUMMARY" THEN log ELSE HasFilepath(log, workload)

\* C15: for a non-empty log, the summary of a group in which no transaction
\* is successful with a nonzero server statistic (all failed, or no record
\* of that script identifier) is returned without an exception, with
\* total_duration = 0 and tps = 0.
C15_DegenerateGroupZero ==
    \A workload \in Groups :
        LET log == transactions["m"]
            group == GroupOf(log, workload)
            summary == get_summary(log, workload)
        IN (/\ log # << >>
            /\ \A k \in 1 .. Len(group) :
                   ~HasServerDuration(group[k]) /\ ~HasServerCpuTime(group[k]))
               => /\ summary.raised = ""
                  /\ summary.total_duration = 0
                  /\ summary.tps = Zero

(***************************************************************************)
(* Claims about the percentiles, checked under SpecPercentiles.            *)
(***************************************************************************)
\* v is the element at index (counted from 0) of the ascending order of values
IsAtIndex(v, values, index) ==
    /\ Cardinality({ k \in 1 .. Len(values) : values[k] < v }) <= index
    /\ index < Cardinality({ k \in 1 .. Len(values) : values[k] <= v })

\* stats has the percentiles of the index rule: the elements at index
\* floor(n*0.50), floor(n*0.95), floor(n*0.99), none beyond the last index
FollowsIndexRule(stats, values) ==
    LET n == Len(values)
    IN /\ stats.raised = ""
       /\ IsAtIndex(stats.p50, values, Min((n * 50) \div 100, n - 1))
       /\ IsAtIndex(stats.p95, values, Min((n * 95) \div 100, n - 1))
       /\ IsAtIndex(stats.p99, values, Min((n * 99) \div 100, n - 1))

OneToTen(values) == Len(values) = 10 /\ \A k \in 1 .. 10 : values[k] = k

\* the index rule for two values or more, and the percentiles of 1 .. 10
IndexRuleFromTwoValues ==
    LET values == server_durations(transactions["m"])
        stats == calculate_percentiles(values)
    IN /\ Len(values) >= 2 => FollowsIndexRule(stats, values)
       /\ OneToTen(values) => stats.p50 = 6 /\ stats.p95 = 10 /\ stats.p99 = 10

\* C16: for n >= 1 values p50, p95 and p99 are the elements at index
\* floor(n*0.50), floor(n*0.95) and floor(n*0.99) of the ascending order,
\* clamped to n-1; for the values 1..10 they are 6, 10 and 10.
C16_PercentileIndexRule ==
    LET values == server_durations(transactions["m"])
        stats == calculate_percentiles(values)
    IN /\ Len(values) >= 1 => FollowsIndexRule(stats, values)
       /\ OneToTen(values) => stats.p50 = 6 /\ stats.p95 = 10 /\ stats.p99 = 10

(***************************************************************************)
(* Claims about print_summary, checked under SpecSummary.                  *)
(***************************************************************************)
DistinctIdentifiers(log) == { log[k].filepath : k \in 1 .. Len(log) }

Position(filepath) == CHOOSE k \in 1 .. Len(Identifiers) : Identifiers[k] = filepath

\* names is a listing of the set ids in ascending order, each member once
AscendingListingOf(names, ids) ==
    /\ { names[k] : k \in 1 .. Len(names) } = ids
    /\ \A k \in 1 .. Len(names) - 1 : Position(names[k]) < Position(names[k + 1])

\* the groups print_summary printed are the overall group, once and first,
\* and then the groups of the distinct identifiers when there are several
PrintedAsStated(printed, log) ==
    LET ids == DistinctIdentifiers(log)
        names == [k \in 1 .. Len(printed.groups) |-> printed.groups[k].workload]
    IN /\ Len(names) >= 1
       /\ names[1] = "SUMMARY"
       /\ AscendingListingOf(SubSeq(names, 2, Len(names)),
                             IF Cardinality(ids) > 1 THEN ids ELSE {})

\* the groups are as stated whenever print_summary prints to its end
PrintedAsStatedWhenNothingRaised ==
    LET log == transactions["m"]
        printed == print_summary(log)
    IN printed.raised = "" => PrintedAsStated(printed, log)

\* a log of two identifiers whose three groups are all printed
ThreeGroupsPrinted ==
    LET printed == print_summary(transactions["m"])
    IN printed.raised = "" /\ Len(printed.groups) = 3

\* C17: print_summary always prints the overall group first and exactly
\* once; with more than one distinct script identifier in the log it then
\* prints one group per identifier in ascending lexicographic order, with one
\* or no identifier it prints no per-script group.
C17_OverallThenSortedGroups ==
    LET log == transactions["m"]
        printed == print_summary(log)
    IN printed.raised = "" /\ PrintedAsStated(printed, log)

(***************************************************************************)
(* The run command (cli.py:370-432) with --processes 1 and --jobs 1.  An   *)
(* option value of --file or --builtin is a name with the text after its   *)
(* last "@", if it has one: weight_str is << >> or <<text>>.  The option   *)
(* --transactions is << >> when it is not given (None); the options        *)
(* --transactions and --workload-duration exclude each other, and          *)
(* --workload-duration has its default when it is not given.               *)
(***************************************************************************)
DefaultWorkloadDuration == 120

WeightStrings == {"x", "-1", "0", "2", "nan"}

\* float("nan"), the one float for which weight <= 0 and weight > 0 are
\* both False; it is written as a number that no weight string stands for
\* and is compared through LessOrEqualZero and GreaterThanZero only
NaN == 0 - 1000
LessOrEqualZero(weight) == weight # NaN /\ weight <= 0
GreaterThanZero(weight) == weight # NaN /\ weight > 0

\* float(weight_str); "x" stands for the texts float() rejects
IsFloat(weight_str) == weight_str \in {"-1", "0", "2", "nan"}
float(weight_str) ==
    CASE weight_str = "-1" -> 0 - 1
      [] weight_str = "0" -> 0
      [] weight_str = "2" -> 2
      [] weight_str = "nan" -> NaN

OptionValues(names) ==
    { [name |-> n, weight_str |-> w] :
        n \in names, w \in {<< >>} \cup { <<t>> : t \in WeightStrings } }

Options ==
    { [file |-> f, builtin |-> b, preheat_duration |-> p, transactions |-> d.t,
       workload_duration |-> d.w, single_session |-> m] :
        f \in {<< >>} \cup { <<v>> : v \in OptionValues({"a.sql", "missing.sql"}) },
        b \in {<< >>} \cup { <<v>> : v \in OptionValues({"tpcb-like", "pgbench"}) },
        p \in (0 - 1) .. MaxStart,
        d \in { [t |-> <<n>>, w |-> DefaultWorkloadDuration] : n \in (0 - 1) .. MaxDuration }
              \cup { [t |-> << >>, w |-> n] : n \in (0 - 1) .. MaxDuration },
        m \in BOOLEAN }

\* a callback that checks the syntax of the weight only
ChecksSyntaxOnly(value) ==
    IF value.weight_str = << >> THEN ""
    ELSE IF ~IsFloat(value.weight_str[1]) THEN "BadParameter"
    ELSE ""

\* parse_weighted_file_spec (cli.py:43-75) and parse_weighted_builtin_spec
\* (cli.py:78-115) on one value: the exception raised, "" if none
weight_error(value) ==
    IF value.weight_str = << >> THEN ""
    ELSE IF ~IsFloat(value.weight_str[1]) THEN "BadParameter"
    ELSE IF LessOrEqualZero(float(value.weight_str[1])) THEN "BadParameter"
    ELSE ""

weight_of(value) ==
    IF value.weight_str = << >> THEN 1 ELSE float(value.weight_str[1])

valid_builtins == {"tpcb-like"}

parse_error(values, known) ==
    IF \E k \in 1 .. Len(values) :
           weight_error(values[k]) # "" \/ values[k].name \notin known
    THEN "BadParameter"
    ELSE ""

parse_weighted_spec(values) ==
    [k \in 1 .. Len(values) |-> <<values[k].name, weight_of(values[k])>>]

ExistingFiles == {"a.sql"}

\* create_script_selector (cli.py:150-193): the builtin scripts, then the files
create_script_selector(file_specs, builtin_specs) ==
    [k \in 1 .. Len(builtin_specs) |->
        WorkloadScript("<builtin:tpcb-like>", builtin_specs[k][2],
                       {"$bid", "$tid", "$aid", "$delta"})]
    \o [k \in 1 .. Len(file_specs) |->
        WorkloadScript(file_specs[k][1], file_specs[k][2], {"$bid", "$aid", "$delta"})]

\* WeightedScriptSelector(scripts): the construction requires a non-empty
\* list of scripts of positive weight and fails otherwise
selector_error(scripts) ==
    IF scripts = << >> \/ \E k \in 1 .. Len(scripts) : ~GreaterThanZero(scripts[k].weight)
    THEN "ValueError"
    ELSE ""

\* The selector of a Job (job.py:62-73): the one it is given, or the default
\* selector when it is given None, which << >> stands for.
job_script_selector(selector) ==
    IF selector = << >> THEN DefaultSelector ELSE selector

InitCli ==
    /\ NoJobs
    /\ NoSplit
    /\ NoMerge
    /\ InitCollectors({"m"})
    /\ options \in Options
    /\ cli_pc = "callbacks"
    /\ NoInit

\* the callbacks of --file and --builtin, before run is called
ParseOptions ==
    /\ cli_pc = "callbacks"
    /\ cli_pc' = IF \/ parse_error(options.file, {"a.sql", "missing.sql"}) # ""
                    \/ parse_error(options.builtin, valid_builtins) # ""
                 THEN "BadParameter"
                 ELSE "run"
    /\ UNCHANGED <<options, initVars, jobVars, collectorVars, envVars, splitVars,
                   mergeVars>>

\* Runner.run with one job: the construction of the Job over the branches
\* of the runner, with the collector of the run
runner_run(start, length, unit, single_session, selector) ==
    /\ jobs' = {1}
    /\ use_single_session' = [j \in {1} |-> single_session]
    /\ script_selector' = job_script_selector(selector)
    /\ workload_start_time' = start
    /\ duration' = length
    /\ duration_unit' = unit
    /\ bid_to' = 2
    /\ metrics' = [j \in {1} |-> "m"]
    /\ pc' = [j \in {1} |-> "preheat_check"]
    /\ i' = [j \in {1} |-> 0]
    /\ tries' = [j \in {1} |-> 0]
    /\ cur' = [j \in {1} |-> [iteration |-> 0, filepath |-> "", start_time |-> 0]]
    /\ session' = [j \in {1} |-> "none"]
    /\ exc' = [j \in {1} |-> FALSE]
    /\ started' = [j \in {1} |-> 0]
    /\ bound' = [j \in {1} |-> << >>]
    /\ nc' = [j \in {1} |-> 0]
    /\ na' = [j \in {1} |-> 0]
    /\ UNCHANGED <<bid_from, journal>>

\* run to the call of runner.run, which constructs the Job (cli.py:382-420)
CliRun ==
    /\ cli_pc = "run"
    /\ LET file == parse_weighted_spec(options.file)
           builtin == IF options.file = << >> /\ options.builtin = << >>
                      THEN << <<"tpcb-like", 1>> >>
                      ELSE parse_weighted_spec(options.builtin)
       IN IF \E k \in 1 .. Len(file) : file[k][1] \notin ExistingFiles
          THEN cli_pc' = "ClickException" /\ UNCHANGED <<jobVars, nc, na>>
          ELSE IF \/ LET scripts == create_script_selector(file, builtin)
                     IN scripts # << >> /\ selector_error(scripts) # ""
                  \/ options.preheat_duration < 0
                  \/ options.workload_duration < 0
          THEN cli_pc' = "ValueError" /\ UNCHANGED <<jobVars, nc, na>>
          ELSE /\ cli_pc' = "running"
               /\ runner_run(now + options.preheat_duration,
                             IF options.transactions # << >>
                             THEN options.transactions[1]
                             ELSE options.workload_duration,
                             IF options.transactions # << >> THEN "TXN" ELSE "SECOND",
                             options.single_session,
                             create_script_selector(file, builtin))
    /\ UNCHANGED <<options, initVars, collectorVars, now, clockTape, attemptTape,
                   splitVars, mergeVars>>

\* the steps of the Job that runner.run constructed
JobStep ==
    /\ cli_pc = "running"
    /\ \E j \in {1} :
           \/ PreheatCheck(j)
           \/ Begin(j)
           \/ End(j)
           \/ Acquire(j)
           \/ LoopCheck(j)
           \/ Release(j)

\* metrics.print_summary() and the end of run (cli.py:429-431)
PrintSummary ==
    /\ cli_pc = "running"
    /\ Ended(1)
    /\ cli_pc' = IF pc[1] = "raised" THEN "raised"
                 ELSE IF print_summary(transactions["m"]).raised # ""
                 THEN print_summary(transactions["m"]).raised
                 ELSE "completed"
    /\ UNCHANGED <<options, initVars, jobVars, collectorVars, envVars, splitVars,
                   mergeVars>>

NextCli ==
    \/ ParseOptions
    \/ CliRun
    \/ JobStep
    \/ PrintSummary

SpecCli == InitCli /\ [][NextCli]_vars

(***************************************************************************)
(* The construction of the selector of a Job: by the run command, from     *)
(* every combination of one --file and one --builtin value, and by a       *)
(* caller that gives the Job no selector.  The Job executes one            *)
(* transaction.                                                            *)
(***************************************************************************)
SelectorOptions ==
    { o \in Options : /\ o.preheat_duration = 0
                      /\ o.transactions = <<1>> }

InitSelector ==
    /\ NoJobs
    /\ NoSplit
    /\ NoMerge
    /\ InitCollectors({"m"})
    /\ options \in SelectorOptions
    /\ cli_pc \in IF options.file = << >> /\ options.builtin = << >>
                  THEN {"callbacks", "no selector"}
                  ELSE {"callbacks"}
    /\ NoInit

\* a Job constructed with script_selector=None, the default of the argument
JobWithoutSelector ==
    /\ cli_pc = "no selector"
    /\ cli_pc' = "running"
    /\ runner_run(now, 1, "TXN", options.single_session, << >>)
    /\ UNCHANGED <<options, initVars, collectorVars, now, clockTape, attemptTape,
                   splitVars, mergeVars>>

NextSelector ==
    \/ NextCli
    \/ JobWithoutSelector

SpecSelector == InitSelector /\ [][NextSelector]_vars

(***************************************************************************)
(* The initialization of the tables.  Runner.init_tables (runner.py:64-78) *)
(* creates one fill_branch task per i in range(scale), with bid = i + 1;   *)
(* the tasks of the TaskGroup run in any order.  fill_branch               *)
(* (initializer.py:62-112) raises ValueError for a bid outside [1, scale]  *)
(* and otherwise replaces into the tables the rows of its statement: the   *)
(* branch, one teller per element of $d, and one account per combination   *)
(* of five elements of $d.  The content of the tables is that of the       *)
(* statements of the calls that did not raise.                             *)
(***************************************************************************)
\* $d = AsList(0,1,2,3,4,5,6,7,8,9)
d_list == 0 .. 9

\* a statement whose tellers are numbered from 0: tid = ($bid-1)*10 + d
TellersFromZero(bid) ==
    { (bid - 1) * TELLERS_PER_BRANCH + d1 : d1 \in d_list }

\* ($bid-1)*$tellers_per_branch + d1.d + 1 as tid
inserted_tellers(bid) ==
    { (bid - 1) * TELLERS_PER_BRANCH + d1 + 1 : d1 \in d_list }

\* ($bid-1)*$accounts_per_branch + rn + 1 as aid is inserted for some
\* rn = d1.d + d2.d*10 + d3.d*100 + d4.d*1000 + d5.d*10000
IsInsertedAccount(aid, bid) ==
    \E d5, d4, d3, d2, d1 \in d_list :
        aid = (bid - 1) * ACCOUNTS_PER_BRANCH
                  + (d1 + d2 * 10 + d3 * 100 + d4 * 1000 + d5 * 10000) + 1

fill_error(bid) == IF bid < 1 \/ bid > scale THEN "ValueError" ELSE ""

\* the branches whose rows are in the tables
filled_branches ==
    { fill_calls[k].bid : k \in { l \in 1 .. Len(fill_calls) : ~fill_calls[l].raised } }

InitTables ==
    /\ NoJobs
    /\ NoSplit
    /\ NoMerge
    /\ InitCollectors({})
    /\ options = << >>
    /\ cli_pc = "none"
    /\ scale \in 0 .. MaxScale
    /\ tasks = 0
    /\ fill_calls = << >>
    /\ drawn = << >>

\* for i in range(scale): tg.create_task(initer.fill_branch(pool, i + 1))
CreateTask ==
    /\ tasks < scale
    /\ tasks' = tasks + 1
    /\ UNCHANGED <<scale, fill_calls, drawn, options, cli_pc>>
    /\ UNCHANGED <<jobVars, collectorVars, envVars, splitVars, mergeVars>>

\* one of the tasks created runs fill_branch
FillBranch(bid) ==
    /\ bid \in 1 .. tasks
    /\ \A k \in 1 .. Len(fill_calls) : fill_calls[k].bid # bid
    /\ fill_calls' = Append(fill_calls, [bid |-> bid, raised |-> fill_error(bid) # ""])
    /\ UNCHANGED <<scale, tasks, drawn, options, cli_pc>>
    /\ UNCHANGED <<jobVars, collectorVars, envVars, splitVars, mergeVars>>

\* the draws of _build_parameters at the ends and in the middle of their ranges
WorkloadDraws(lo, hi) ==
    [bid : lo .. hi, tdraw : {1, 5, TELLERS_PER_BRANCH},
     adraw : {1, 54321, ACCOUNTS_PER_BRANCH}, delta : {1}]

\* after the initialization a Job over the branches 1 .. scale
\* (cli.py:267-272) builds the parameters of a transaction (job.py:87-104)
BuildParameters(d) ==
    /\ d.bid \in 1 .. scale
    /\ tasks = scale
    /\ Len(fill_calls) = scale
    /\ drawn' = build_parameters(AllParametersSelector[1], 0, d)
    /\ UNCHANGED <<scale, tasks, fill_calls, options, cli_pc>>
    /\ UNCHANGED <<jobVars, collectorVars, envVars, splitVars, mergeVars>>

NextTables ==
    \/ CreateTask
    \/ \E bid \in 1 .. MaxScale : FillBranch(bid)
    \/ \E d \in WorkloadDraws(1, MaxScale) : BuildParameters(d)

SpecTables == InitTables /\ [][NextTables]_vars

(***************************************************************************)
(* Claims about the run command, checked under SpecCli.                    *)
(***************************************************************************)
\* the weights given on the command line that are numbers
GivenWeights ==
    { float(v.weight_str[1]) :
        v \in { v \in { options.file[k] : k \in 1 .. Len(options.file) }
                      \cup { options.builtin[k] : k \in 1 .. Len(options.builtin) } :
                  v.weight_str # << >> /\ IsFloat(v.weight_str[1]) } }

NoScripts == options.file = << >> /\ options.builtin = << >>
NonPositiveWeight == \E w \in GivenWeights : LessOrEqualZero(w)
NegativePreheat == options.preheat_duration < 0
NonPositiveDuration ==
    IF options.transactions # << >> THEN options.transactions[1] <= 0
    ELSE options.workload_duration <= 0

JobConstructed == jobs # {}

\* what run does reject: a non-positive weight, a negative preheat and a
\* negative workload duration never reach the construction of a Job
RejectedByRun ==
    (\/ NonPositiveWeight
     \/ NegativePreheat
     \/ options.workload_duration < 0) => ~JobConstructed

\* C18: a malformed configuration (no scripts, a non-positive weight, a
\* negative preheat, a non-positive duration or transaction count) is
\* rejected before any Job is constructed or any transaction is executed.
C18_MalformedRejectedBeforeJob ==
    (\/ NoScripts
     \/ NonPositiveWeight
     \/ NegativePreheat
     \/ NonPositiveDuration)
        => /\ ~JobConstructed
           /\ cli_pc \notin {"running", "completed", "raised"}
           /\ transactions["m"] = << >>

(***************************************************************************)
(* Claims about the records of the measured attempts, checked under Spec.  *)
(***************************************************************************)
\* the step ends a measured attempt of Job j
EndsMeasuredAttempt(j) == pc[j] = "op" /\ pc'[j] # "op"

\* the step appends exactly one record to the collector of Job j, that of
\* the attempt in progress
AppendsItsRecord(j) ==
    LET c == metrics[j]
        n == Len(transactions[c])
    IN /\ Len(transactions'[c]) = n + 1
       /\ SubSeq(transactions'[c], 1, n) = transactions[c]
       /\ transactions'[c][n + 1].filepath = cur[j].filepath
       /\ transactions'[c][n + 1].start_time = cur[j].start_time
       /\ origin'[c][n + 1] = [job |-> j, phase |-> "measured",
                               iteration |-> cur[j].iteration]

\* the exception of a failed attempt reaches the caller of
\* _execute_operation: the single-session loop is left with it, the retry
\* wrapper of the pooled loop calls again or gives up without counting a
\* success; a committed attempt returns to the loop
ReachesCaller(j, success) ==
    IF success
    THEN /\ pc'[j] = "loop_check"
         /\ ~exc'[j]
         /\ i'[j] = i[j] + 1
    ELSE IF use_single_session[j]
         THEN pc'[j] = "release" /\ exc'[j] /\ i'[j] = i[j]
         ELSE /\ pc'[j] \in {"call", "loop_check"}
              /\ pc'[j] = "call" => i'[j] = i[j]
              /\ duration_unit = "SECOND" => i'[j] = i[j]

EndsLoopIteration(j) == pc[j] = "op" /\ pc'[j] = "loop_check"

\* what holds in every mode when the iteration committed
CommittedIterationAdvances ==
    [][\A j \in jobs :
          (/\ EndsLoopIteration(j)
           /\ transactions'[metrics[j]][Len(transactions'[metrics[j]])].success)
              => i'[j] = i[j] + 1]_vars

\* C20: in every mode the iteration counter advances by one per iteration of
\* the measured loop, whether the transaction committed or failed, so that
\* no iteration value is bound to two iterations of the loop.
C20_IterationAdvancesRegardless ==
    [][\A j \in jobs : EndsLoopIteration(j) => i'[j] = i[j] + 1]_vars

(***************************************************************************)
(* Claims about the preheat phase, checked under Spec.                     *)
(***************************************************************************)
InPreheat(j) == pc[j] \in {"preheat_check", "preheat_call", "preheat_op"}

\* a step that takes Job j out of the preheat phase reads the clock at
\* workload_start_time or later, and is a step of the loop condition
LeavesPreheatOnTime ==
    \A j \in jobs :
        (InPreheat(j) /\ ~InPreheat(j)')
            => pc[j] = "preheat_check" /\ now' >= workload_start_time

\* a preheat transaction in flight ends in the preheat phase
PreheatNeverInterrupted ==
    \A j \in jobs :
        (pc[j] = "preheat_op" /\ pc'[j] # "preheat_op")
            => pc'[j] \in {"preheat_call", "preheat_check"}

\* a measured transaction starts at workload_start_time or later
MeasuredAfterStart ==
    \A j \in jobs : pc[j] = "op" => cur[j].start_time >= workload_start_time

\* the preheat loop calls its transaction only after a reading of the clock
\* before workload_start_time: if that time has passed when the Job starts,
\* no preheat transaction is executed
PreheatOnlyBeforeStart ==
    \A j \in jobs :
        /\ (pc[j] = "preheat_call" /\ tries[j] = 0) => now < workload_start_time
        /\ (workload_start_time <= 0 /\ pc[j] \in {"preheat_call", "preheat_op", "call", "op"})
               => cur[j].iteration >= 0 /\ pc[j] \in {"call", "op"}

\* every process of run_parallel is given the workload_start_time of the run
SameStartForAll ==
    \A n \in 1 .. MaxPool :
        LET args == worker_args(split([bid_from |-> 1, bid_to |-> MaxBranches], n),
                                workload_start_time)
        IN \A k \in 1 .. n : args[k].workload_start_time = workload_start_time

\* C21: the Job leaves the preheat phase only when the clock has reached
\* workload_start_time, the check is made only between transactions, no
\* measured iteration begins before workload_start_time, no preheat
\* transaction is executed when workload_start_time has already passed, and
\* every process is given the same workload_start_time.
C21_PreheatLeftOnTime ==
    /\ [](MeasuredAfterStart /\ PreheatOnlyBeforeStart /\ SameStartForAll)
    /\ [][LeavesPreheatOnTime /\ PreheatNeverInterrupted]_vars

\* the first measured transaction is in flight after a preheat transaction
C21_Witness ==
    /\ workload_start_time > 0
    /\ pc[1] = "op"
    /\ cur[1].iteration = 0
    /\ tries[1] = 1
    /\ started[1] >= 2

(***************************************************************************)
(* One Job under the assumptions of termination: every database call       *)
(* returns, and the clock has advanced when it does (until MaxTime, where   *)
(* the model's clock stays; every deadline of the runs below lies at or    *)
(* before it: Later, EndLater).  The runs are those whose attempts fit under MaxAttempts    *)
(* whatever the outcomes: an attempt that starts before a deadline takes a *)
(* tick, after the deadline only the retries of the wrapper remain.        *)
(***************************************************************************)
FitsBounds ==
    IF duration_unit = "SECOND"
    THEN /\ workload_start_time + duration <= MaxTime
         /\ workload_start_time + duration + MaxRetries <= MaxAttempts
    ELSE /\ workload_start_time <= MaxTime
         /\ (IF workload_start_time > 0 THEN workload_start_time + MaxRetries ELSE 0)
                + duration * (MaxRetries + 1) <= MaxAttempts

InitLive == Init /\ FitsBounds

NextLive ==
    \E j \in {1} :
        \/ PreheatCheck(j)
        \/ Begin(j)
        \/ EndLater(j)
        \/ Acquire(j)
        \/ LoopCheck(j)
        \/ Release(j)

SpecLive == InitLive /\ [][NextLive]_vars /\ WF_vars(NextLive)

(***************************************************************************)
(* Claims about termination, checked under SpecLive.                       *)
(***************************************************************************)
\* the Job ends, with or without an exception
JobEnds == <>(\A j \in jobs : Ended(j))

\* a pooled Job reaches DONE
PooledJobDone == <>(\A j \in jobs : ~use_single_session[j] => Done(j))

\* a Job that has ended starts no transaction and appends no record
NothingAfterEnd ==
    [][\A j \in jobs :
          Ended(j) => /\ started'[j] = started[j]
                      /\ transactions'[metrics[j]] = transactions[metrics[j]]
                      /\ pc'[j] = pc[j]]_vars

\* C22: if every database call returns and the clock keeps advancing, a Job
\* in either session mode and either duration mode eventually reaches DONE,
\* and after DONE it executes no transaction and appends no record.
C22_EventuallyDone ==
    /\ <>(\A j \in jobs : Done(j))
    /\ [][\A j \in jobs :
             Done(j) => /\ started'[j] = started[j]
                        /\ transactions'[metrics[j]] = transactions[metrics[j]]]_vars

(***************************************************************************)
(* Claims about the pooled loops when the retry wrapper gives up, checked  *)
(* under Spec.                                                             *)
(***************************************************************************)
InPooledMode(j) == ~use_single_session[j]

MeasuredIterations(j) ==
    { origin[metrics[j]][k].iteration : k \in RecordsOf(j) }

\* a DONE pooled Job of the transaction-count mode has invoked the wrapper
\* once for each of the iterations 0 .. duration-1, whatever the outcomes
WrapperInvokedNTimes ==
    \A j \in jobs :
        (InPooledMode(j) /\ duration_unit = "TXN" /\ Done(j))
            => /\ i[j] = duration
               /\ MeasuredIterations(j) = 0 .. duration - 1

\* a pooled Job never ends with an exception
PooledNeverRaises == \A j \in jobs : InPooledMode(j) => pc[j] # "raised" /\ ~exc[j]

\* the end of a pooled attempt, whatever its outcome, leaves the Job in the
\* phase it is in: the preheat loop goes to its condition or the wrapper
\* calls again, and so does the measured loop
PooledLoopGoesOn ==
    \A j \in jobs :
        /\ (InPooledMode(j) /\ pc[j] = "preheat_op" /\ pc'[j] # "preheat_op")
               => pc'[j] \in {"preheat_call", "preheat_check"}
        /\ (InPooledMode(j) /\ pc[j] = "op" /\ pc'[j] # "op")
               => pc'[j] \in {"call", "loop_check"}

\* C23: in pooled mode, when the retry wrapper gives up and raises, the Job
\* continues: in transaction-count mode with duration N the wrapper is
\* invoked exactly N times in the measured phase whatever the outcomes, and a
\* retry exhaustion during preheat does not end the preheat phase.
C23_PooledContinuesAfterGiveUp ==
    /\ [](WrapperInvokedNTimes /\ PooledNeverRaises)
    /\ [][PooledLoopGoesOn]_vars

\* a pooled Job of the transaction-count mode is DONE after a failed iteration
C23_Witness ==
    /\ InPooledMode(1)
    /\ duration_unit = "TXN"
    /\ duration = MaxDuration
    /\ Done(1)
    /\ \E k \in RecordsOf(1) : ~transactions["m"][k].success

(***************************************************************************)
(* Claims about the keys of the parameter sets, checked under SpecFlags.   *)
(***************************************************************************)
FlagsOf(script) ==
    { k \in AllFlags :
        \/ k = "$bid" /\ script.uses_bid
        \/ k = "$tid" /\ script.uses_tid
        \/ k = "$aid" /\ script.uses_aid
        \/ k = "$delta" /\ script.uses_delta
        \/ k = "$iteration" /\ script.uses_iteration }

\* the script of the attempt in flight
ScriptInFlight(j) ==
    script_selector[CHOOSE k \in 1 .. Len(script_selector) :
                        script_selector[k].filepath = cur[j].filepath]

InFlight(j) == pc[j] \in {"preheat_op", "op"}

\* C24: the parameter set bound to a transaction has a key exactly when the
\* selected script's flag for it is set, and no other key; the value of
\* $iteration is the current iteration number of the loop.
C24_KeysFollowFlags ==
    /\ \A j \in jobs :
           InFlight(j) =>
               LET p == bound[j][Len(bound[j])]
               IN /\ DOMAIN p = FlagsOf(ScriptInFlight(j))
                  /\ (pc[j] = "op" /\ "$iteration" \in DOMAIN p) => p["$iteration"] = i[j]
    /\ \A flags \in SUBSET AllFlags :
           \A d \in Draws(bid_from, bid_to) :
               LET p == build_parameters(WorkloadScript("a.sql", 1, flags), MaxDuration, d)
               IN /\ DOMAIN p = flags
                  /\ "$iteration" \in flags => p["$iteration"] = MaxDuration

\* the second measured iteration has bound $iteration and not $tid, after a
\* transaction that bound $tid and not $iteration
C24_Witness ==
    /\ pc[1] = "op"
    /\ i[1] = 1
    /\ Len(bound[1]) >= 2
    /\ "$iteration" \in DOMAIN bound[1][Len(bound[1])]
    /\ "$tid" \notin DOMAIN bound[1][Len(bound[1])]
    /\ \E k \in 1 .. Len(bound[1]) - 1 :
           "$tid" \in DOMAIN bound[1][k] /\ "$iteration" \notin DOMAIN bound[1][k]

(***************************************************************************)
(* Claims about the log of a collector, checked under SpecCalls.           *)
(***************************************************************************)
IsPrefix(s1, s2) == Len(s1) <= Len(s2) /\ SubSeq(s2, 1, Len(s1)) = s1

\* the step is a call of record_transaction: the logs change and no merge
\* is noted
IsRecordStep == transactions' # transactions /\ last_merge' = last_merge

\* C25: the log of a collector is append-only: over every call of
\* record_transaction and merge the log before the call is a prefix of the
\* log after it, and record_transaction grows the log by exactly one.
C25_LogAppendOnly ==
    [][/\ \A c \in DOMAIN transactions : IsPrefix(transactions[c], transactions'[c])
       /\ IsRecordStep =>
              \E c \in DOMAIN transactions :
                  /\ Len(transactions'[c]) = Len(transactions[c]) + 1
                  /\ \A o \in DOMAIN transactions \ {c} :
                         transactions'[o] = transactions[o]]_vars

\* a collector that has recorded was merged with another that had recorded,
\* and has recorded again
C25_Witness ==
    /\ last_merge # << >>
    /\ last_merge[1].self_before.transactions # << >>
    /\ last_merge[1].other_before.transactions # << >>
    /\ Len(transactions[last_merge[1].self]) >
           Len(last_merge[1].self_before.transactions)
               + Len(last_merge[1].other_before.transactions)

(***************************************************************************)
(* Claims about the Jobs of one process and their collector, checked under *)
(* SpecShared.                                                             *)
(***************************************************************************)
\* the records of Job j in the log, in the order of the log
OwnRecords(log, from, j) ==
    LET Own(k) == from[k].job = j
        RECURSIVE Pick(_)
        Pick(k) == IF k > Len(log) THEN << >>
                   ELSE IF Own(k) THEN <<log[k]>> \o Pick(k + 1)
                   ELSE Pick(k + 1)
    IN Pick(1)

\* the records of each Job stand in the log in the order of their completion
InOwnCompletionOrder ==
    \A j \in jobs : InCompletionOrder(OwnRecords(transactions["m"], origin["m"], j))

\* the step appends one record of Job j to the log and changes nothing else
\* of the log
AppendsOneOf(j) ==
    LET n == Len(transactions["m"])
    IN /\ Len(transactions'["m"]) = n + 1
       /\ SubSeq(transactions'["m"], 1, n) = transactions["m"]
       /\ SubSeq(origin'["m"], 1, n) = origin["m"]
       /\ origin'["m"][n + 1].job = j

EndsAttempt(j) == InFlight(j) /\ ~InFlight(j)'

\* no record is lost or duplicated, whichever attempts are recorded: the end
\* of an attempt appends at most the one record of its Job, and no other
\* step changes the log
NoRecordLostOrDuplicated ==
    [][/\ \A j \in jobs :
              EndsAttempt(j) => AppendsOneOf(j) \/ transactions' = transactions
       /\ (\A j \in jobs : ~EndsAttempt(j)) => transactions' = transactions
       /\ \A j \in jobs : EndsMeasuredAttempt(j) => AppendsOneOf(j)]_vars

\* C26: when several Jobs of one process record into its collector and
\* interleave only where they await the database, no record is lost or
\* duplicated: the collector holds exactly one record per measured attempt
\* of each Job, the records of each Job in its completion order.
C26_OneRecordPerMeasuredAttempt ==
    /\ []InOwnCompletionOrder
    /\ [][/\ \A j \in jobs : EndsMeasuredAttempt(j) => AppendsOneOf(j)
          /\ (\A j \in jobs : ~EndsMeasuredAttempt(j))
                 => transactions' = transactions]_vars

(***************************************************************************)
(* Claims about total_duration and tps, checked under SpecSummary.         *)
(***************************************************************************)
WithServerDuration(group) == { k \in 1 .. Len(group) : HasServerDuration(group[k]) }
WithServerCpuTime(group) == { k \in 1 .. Len(group) : HasServerCpuTime(group[k]) }

First(indices) == CHOOSE k \in indices : \A l \in indices : k <= l
Last(indices) == CHOOSE k \in indices : \A l \in indices : l <= k

Qualifies(group) == WithServerDuration(group) # {} /\ WithServerCpuTime(group) # {}

\* total_duration and tps of the summary are those of the group as stated
DurationAndTpsAsStated(summary, group) ==
    LET total_duration == group[Last(WithServerCpuTime(group))].end_time
                              - group[First(WithServerDuration(group))].start_time
    IN /\ summary.total_duration = total_duration
       /\ summary.total_transactions = Len(group)
       /\ total_duration > 0 =>
              summary.tps.num * total_duration = Len(group) * summary.tps.den
       /\ total_duration <= 0 => summary.tps = Zero

\* whenever get_summary returns for a group with a qualifying transaction,
\* total_duration and tps are as stated
AsStatedWhenReturned ==
    \A workload \in Groups :
        LET group == GroupOf(transactions["m"], workload)
            summary == get_summary(transactions["m"], workload)
        IN (Qualifies(group) /\ summary.raised = "")
               => DurationAndTpsAsStated(summary, group)

\* a summary is returned whose total_duration is not positive, and one
\* whose tps is not zero
ReturnedWithBothKindsOfTps ==
    \E w1, w2 \in Groups :
        LET s1 == get_summary(transactions["m"], w1)
            s2 == get_summary(transactions["m"], w2)
        IN /\ Qualifies(GroupOf(transactions["m"], w1)) /\ s1.raised = ""
           /\ s1.total_duration <= 0
           /\ Qualifies(GroupOf(transactions["m"], w2)) /\ s2.raised = ""
           /\ s2.tps # Zero

\* C27: for a group with at least one qualifying transaction total_duration
\* is the end time of the last successful transaction with nonzero server
\* CPU time minus the start time of the first successful transaction with
\* nonzero server duration, and tps is total_transactions / total_duration,
\* or 0 when total_duration <= 0.
C27_DurationAndTps ==
    \A workload \in Groups :
        LET group == GroupOf(transactions["m"], workload)
            summary == get_summary(transactions["m"], workload)
        IN Qualifies(group)
               => summary.raised = "" /\ DurationAndTpsAsStated(summary, group)

(***************************************************************************)
(* Claims about the transactions each statistic is computed over, checked  *)
(* under SpecSummary.                                                      *)
(***************************************************************************)
\* stats has the average, the least and the greatest of the numbers
\* value[k], k in the non-empty set indices
IsOver(stats, value, indices) ==
    LET total == Sum([k \in 1 .. Cardinality(indices) |->
                         value[CHOOSE l \in indices :
                                   Cardinality({ m \in indices : m < l }) = k - 1]])
    IN /\ stats.avg.num * Cardinality(indices) = total * stats.avg.den
       /\ stats.min \in { value[k] : k \in indices }
       /\ stats.max \in { value[k] : k \in indices }
       /\ \A k \in indices : stats.min <= value[k] /\ value[k] <= stats.max

Returned(summary) ==
    /\ summary.raised = ""
    /\ HasStatistics(summary.latency)
    /\ HasStatistics(summary.server_duration)
    /\ HasStatistics(summary.server_cpu_time)

\* C28: the latency statistics of a summary are computed over every
\* transaction of the group, failed ones included, the server-duration
\* statistics over its successful transactions with server_duration_us > 0,
\* the server-CPU statistics over its successful transactions with
\* server_cpu_time_us > 0.
C28_StatisticsOverStatedTransactions ==
    \A workload \in Groups :
        LET group == GroupOf(transactions["m"], workload)
            summary == get_summary(transactions["m"], workload)
            all == 1 .. Len(group)
            with_duration ==
                { k \in all : group[k].success /\ group[k].server_duration_us > 0 }
            with_cpu_time ==
                { k \in all : group[k].success /\ group[k].server_cpu_time_us > 0 }
        IN Returned(summary) =>
               /\ IsOver(summary.latency,
                         [k \in all |-> (group[k].end_time - group[k].start_time) * 1000],
                         all)
               /\ IsOver(summary.server_duration,
                         [k \in all |-> group[k].server_duration_us \div 1000],
                         with_duration)
               /\ IsOver(summary.server_cpu_time,
                         [k \in all |-> group[k].server_cpu_time_us \div 1000],
                         with_cpu_time)

\* a summary is returned for a log with a failed transaction and a
\* successful one without server statistics
C28_Witness ==
    LET log == transactions["m"]
    IN /\ Returned(get_summary(log, "SUMMARY"))
       /\ \E k \in 1 .. Len(log) : ~log[k].success
       /\ \E k \in 1 .. Len(log) : log[k].success /\ log[k].server_duration_us = 0

(***************************************************************************)
(* Claims about the calls of get_summary, checked under SpecRepeat.        *)
(***************************************************************************)
IsGetSummaryStep == Len(summaries') = Len(summaries) + 1

PositiveWeights(scripts) ==
    /\ Len(scripts) > 0
    /\ \A k \in 1 .. Len(scripts) : GreaterThanZero(scripts[k].weight)
    /\ GreaterThanZero(total_weight(scripts))

\* C30: every Job runs with a selector whose script list is non-empty and
\* whose scripts all have weight > 0, so total_weight > 0; a weight
\* specification with weight <= 0 is rejected when it is parsed, and a Job
\* given no selector builds a default selector of one script of weight 1.
C30_SelectorNonEmptyPositive ==
    /\ JobConstructed => PositiveWeights(script_selector)
    /\ (NonPositiveWeight /\ cli_pc \notin {"callbacks", "no selector"})
           => cli_pc = "BadParameter" /\ ~JobConstructed
    /\ (JobConstructed /\ NoScripts)
           => Len(script_selector) = 1 /\ script_selector[1].weight = 1
    /\ (JobConstructed /\ script_selector[1].filepath = "<default>")
           => script_selector = job_script_selector(<< >>)

\* a Job that was given no selector has executed its transaction with the
\* default selector
C30_Witness ==
    /\ JobConstructed
    /\ script_selector[1].filepath = "<default>"
    /\ PositiveWeights(script_selector)
    /\ \E j \in jobs : Ended(j)

(***************************************************************************)
(* Claims about the weighted selection, checked under SpecSelect.          *)
(***************************************************************************)
FirstExceeding(scripts, r) ==
    scripts[CHOOSE k \in 1 .. Len(scripts) :
                /\ SumWeights(scripts, k) > r
                /\ \A l \in 1 .. k - 1 : SumWeights(scripts, l) <= r]

DrawsSelecting(scripts, k) ==
    { r \in 0 .. total_weight(scripts) - 1 : select(scripts, r) = scripts[k] }

AttemptUnderWay(j) == pc[j] \in {"preheat_op", "op"}

\* C31: weighted selection is a function of the draw: for a draw r in
\* [0, total_weight) it returns the first script whose cumulative weight
\* exceeds r, it always returns one of the scripts, it changes no state of
\* the selector, and exactly w_k of the draws 0 .. total_weight-1 select
\* script k.
C31_SelectionFollowsWeights ==
    /\ [](/\ \A r \in 0 .. total_weight(script_selector) - 1 :
                select(script_selector, r) = FirstExceeding(script_selector, r)
          /\ \A k \in 1 .. Len(script_selector) :
                Cardinality(DrawsSelecting(script_selector, k)) = script_selector[k].weight
          /\ \A j \in jobs :
                AttemptUnderWay(j) =>
                    \E k \in 1 .. Len(script_selector) :
                        cur[j].filepath = script_selector[k].filepath)
    /\ [][script_selector' = script_selector]_vars

\* the second of three scripts of different weights is the one selected
\* for the measured transaction
C31_Witness ==
    /\ Len(script_selector) = 3
    /\ script_selector[1].weight = 2
    /\ script_selector[2].weight = 3
    /\ script_selector[3].weight = 1
    /\ pc[1] = "op"
    /\ cur[1].filepath = "b.sql"

(***************************************************************************)
(* Claims about the completeness of a summary, checked under SpecSummary.  *)
(***************************************************************************)
\* the successful transactions of the group with both server statistics
WithServerStats(group) == WithServerDuration(group) \cap WithServerCpuTime(group)

\* C32: get_summary returns a complete statistics record without raising
\* for every group that contains at least one successful transaction with
\* nonzero server statistics, a group of exactly one transaction included.
C32_CompleteForEveryQualifyingGroup ==
    \A workload \in Groups :
        LET group == GroupOf(transactions["m"], workload)
        IN WithServerStats(group) # {}
               => Returned(get_summary(transactions["m"], workload))

\* with two or more such transactions in the group the record is complete
CompleteForTwoWithServerStats ==
    \A workload \in Groups :
        LET group == GroupOf(transactions["m"], workload)
        IN Cardinality(WithServerStats(group)) >= 2
               => Returned(get_summary(transactions["m"], workload))

\* a complete record is returned for a group of two transactions
CompleteForAGroupOfTwo ==
    \E workload \in Groups :
        LET group == GroupOf(transactions["m"], workload)
        IN /\ Len(group) = 2
           /\ Cardinality(WithServerStats(group)) = 2
           /\ Returned(get_summary(transactions["m"], workload))

(***************************************************************************)
(* Claims about the size of the sub-ranges, checked under SpecSplit.       *)
(***************************************************************************)
NonEmpty(g) == g.bid_from <= g.bid_to

\* C33: every sub-range the split hands to a process or worker is
\* non-empty, its first branch not greater than its last, for every number
\* of processes and every branch range, a number of processes greater than
\* the number of branches included.
C33_EverySubRangeNonEmpty ==
    /\ \A k \in 1 .. Len(workers) : NonEmpty(workers[k])
    /\ \A k \in 1 .. Len(runners) : NonEmpty(runners[k])

\* with no more workers or processes than branches every sub-range is
\* non-empty
NonEmptyUpToOnePerBranch ==
    /\ worker_count <= 100 => \A k \in 1 .. Len(workers) : NonEmpty(workers[k])
    /\ processes <= Size(runner_range)
           => \A k \in 1 .. Len(runners) : NonEmpty(runners[k])

\* one hundred workers have one branch each, and a range is split into as
\* many parts as it has branches
OnePerBranchReached ==
    \/ AllWorkersCreated /\ worker_count = 100
    \/ SplitDone /\ processes = Size(runner_range) /\ processes > 1

(***************************************************************************)
(* Claims about the counts of a summary, checked under SpecSummary.        *)
(***************************************************************************)
\* the script identifiers of the log, as print_summary collects them
unique_filepaths(log) == { log[k].filepath : k \in 1 .. Len(log) }

RECURSIVE SumOfTotals(_, _)
SumOfTotals(log, filepaths) ==
    IF filepaths = {} THEN 0
    ELSE LET filepath == CHOOSE f \in filepaths : TRUE
         IN get_summary(log, filepath).total_transactions
                + SumOfTotals(log, filepaths \ {filepath})

CountsAddUp(summary) ==
    summary.successful_transactions + summary.failed_transactions
        = summary.total_transactions

AllReturned(log) ==
    /\ get_summary(log, "SUMMARY").raised = ""
    /\ \A filepath \in unique_filepaths(log) : get_summary(log, filepath).raised = ""

\* C34: in every summary successful_transactions + failed_transactions =
\* total_transactions, and for a non-empty log total_transactions of the
\* overall group is the sum of total_transactions of the groups of the
\* distinct script identifiers of the log.
C34_CountsConsistent ==
    LET log == transactions["m"]
    IN /\ \A workload \in Groups :
              get_summary(log, workload).raised = ""
                  => CountsAddUp(get_summary(log, workload))
       /\ log # << >> =>
              /\ AllReturned(log)
              /\ get_summary(log, "SUMMARY").total_transactions
                     = SumOfTotals(log, unique_filepaths(log))

\* whenever the overall summary and the summaries of the groups are
\* returned, the counts are as stated
CountsConsistentWhenReturned ==
    LET log == transactions["m"]
    IN /\ \A workload \in Groups :
              get_summary(log, workload).raised = ""
                  => CountsAddUp(get_summary(log, workload))
       /\ (log # << >> /\ AllReturned(log)) =>
              get_summary(log, "SUMMARY").total_transactions
                  = SumOfTotals(log, unique_filepaths(log))

\* the overall summary and the summaries of both groups of a log of two
\* scripts are returned
TwoGroupsReturned ==
    LET log == transactions["m"]
    IN /\ Cardinality(unique_filepaths(log)) = 2
       /\ AllReturned(log)
       /\ get_summary(log, "SUMMARY").total_transactions = 4

(***************************************************************************)
(* Claims about the order of the percentiles, checked under                *)
(* SpecPercentiles.                                                        *)
(***************************************************************************)
Elements(values) == { values[k] : k \in 1 .. Len(values) }

\* stats is ordered, each of its five values is one of values, and no
\* percentile index reaches the length of values
OrderedWithinValues(stats, values) ==
    /\ stats.raised = ""
    /\ stats.min <= stats.p50
    /\ stats.p50 <= stats.p95
    /\ stats.p95 <= stats.p99
    /\ stats.p99 <= stats.max
    /\ {stats.min, stats.p50, stats.p95, stats.p99, stats.max} \subseteq Elements(values)
    /\ \A q \in {50, 95, 99} : PercentileIndex(Len(values), q) < Len(values)

\* C35: for every non-empty list of values the percentile result is ordered
\* min <= p50 <= p95 <= p99 <= max, each of the five is an element of the
\* list, and the clamp to the last index is never taken.
C35_PercentilesOrdered ==
    LET values == server_durations(transactions["m"])
    IN values # << >> => OrderedWithinValues(calculate_percentiles(values), values)

\* the same for the lists of two values or more
OrderedFromTwoValues ==
    LET values == server_durations(transactions["m"])
    IN Len(values) >= 2 => OrderedWithinValues(calculate_percentiles(values), values)

\* the percentiles of ten values are returned, p50 and p95 being different
\* inner elements
TenValuesOrdered ==
    LET values == server_durations(transactions["m"])
        stats == calculate_percentiles(values)
    IN /\ Len(values) = 10
       /\ stats.raised = ""
       /\ stats.min < stats.p50
       /\ stats.p50 < stats.p95

(***************************************************************************)
(* Claims about the rows the workload references, checked under            *)
(* SpecTables.                                                             *)
(***************************************************************************)
CallsOf(bid) == { k \in 1 .. Len(fill_calls) : fill_calls[k].bid = bid }

InitDone == tasks = scale /\ Len(fill_calls) = scale

\* C36: the parameters of the workload reference rows the initialization
\* created: for every bid in 1 .. scale the tid and the aid the workload
\* builds for bid are among the tellers and accounts fill_branch(bid)
\* inserts, and init_tables calls fill_branch exactly once for each bid in
\* 1 .. scale and never with a bid outside 1 .. scale.
C36_ParametersReferenceCreatedRows ==
    /\ drawn # << >> =>
           /\ drawn["$bid"] \in filled_branches
           /\ drawn["$tid"] \in inserted_tellers(drawn["$bid"])
           /\ IsInsertedAccount(drawn["$aid"], drawn["$bid"])
    /\ \A k \in 1 .. Len(fill_calls) :
           /\ fill_calls[k].bid \in 1 .. scale
           /\ ~fill_calls[k].raised
           /\ Cardinality(CallsOf(fill_calls[k].bid)) = 1
    /\ InitDone => \A bid \in 1 .. scale : Cardinality(CallsOf(bid)) = 1

\* after the initialization of three branches, filled out of order, the
\* workload builds the last teller and the last account of the last branch
C36_Witness ==
    /\ scale = 3
    /\ InitDone
    /\ fill_calls[1].bid = 3
    /\ drawn # << >>
    /\ drawn["$bid"] = 3
    /\ drawn["$tid"] = 3 * TELLERS_PER_BRANCH
    /\ drawn["$aid"] = 3 * ACCOUNTS_PER_BRANCH

=============================================================================
